---- MODULE Spec2Model ----
(***************************************************************************)
(* A model of constensor-core: the graph IR, the dependency scheduler      *)
(* (petgraph DiGraphMap + toposort as the code calls them), the CPU        *)
(* interpreter, the CUDA expression renderer and the tensor front end.     *)
(* Node ids are 0-based and equal list positions; graph[id + 1] is the     *)
(* node with that id.                                                      *)
(***************************************************************************)
EXTENDS Integers, Sequences, FiniteSets, TLC

VARIABLES
    nodes,      \* the node list handed to a scheduler / backend (Vec<GraphNode<T>>)
    sched,      \* what the last scheduler call produced: [by, ok, order] or NoSched
    id,         \* the graph's id counter (Graph.id)
    tensor,     \* what the last run / to_tensor produced, or NoTensor
    base,       \* the node list before the optimizer rewrote it
    rewrite,    \* the rewrite the optimizer applied: [kind, at] or NoRewrite
    gemm,       \* one launch_gemm call: its arguments and the content of out
    cuda,       \* the CUDA device: kernel cache files, compile and run progress
    threads     \* concurrent callers: the locks, each thread's position and locals

vars == <<nodes, sched, id, tensor, base, rewrite, gemm, cuda, threads>>

\* ------------------------------------------------------------------ bounds
MaxNodes == 3

\* ------------------------------------------------------------- sequences
Range(s) == {s[i] : i \in 1..Len(s)}

RECURSIVE SetToSeq(_)
\* the elements of a finite set of integers, ascending
SetToSeq(S) ==
    IF S = {} THEN <<>>
    ELSE LET m == CHOOSE x \in S : \A y \in S : x <= y
         IN <<m>> \o SetToSeq(S \ {m})

Reverse(s) == [i \in 1..Len(s) |-> s[Len(s) + 1 - i]]

IndexOf(s, x) == CHOOSE i \in 1..Len(s) : s[i] = x

\* --------------------------------------------------------------- Graph IR
None == -1

Fill(v) == [kind |-> "Fill", v |-> v]
Arange(start, step, stop) == [kind |-> "Arange", start |-> start, step |-> step, stop |-> stop]
UnaryOp(v, operator) == [kind |-> "UnaryOp", v_id |-> v, operator |-> operator]
BinaryOp(l, r, operator) == [kind |-> "BinaryOp", l_id |-> l, r_id |-> r, operator |-> operator]
InplaceBinaryOp(out, l, r, operator) ==
    [kind |-> "InplaceBinaryOp", out |-> out, l_id |-> l, r_id |-> r, operator |-> operator]
FusedMulAdd(a, b, c) == [kind |-> "FusedMulAdd", a_id |-> a, b_id |-> b, c_id |-> c]
InplaceFusedMulAdd(a, b, c, out) ==
    [kind |-> "InplaceFusedMulAdd", a_id |-> a, b_id |-> b, c_id |-> c, out |-> out]
MatMul(l, r, o) == [kind |-> "MatMul", l_id |-> l, r_id |-> r, o_id |-> o]
Permute(v) == [kind |-> "Permute", v_id |-> v]
NoOp == [kind |-> "NoOp"]

GraphNode(op, shape) == [op |-> op, shape |-> shape]

\* ids of a graph of n nodes
Ids(graph) == 0..(Len(graph) - 1)

\* ------------------------------------------------- petgraph::DiGraphMap
\* keys: the nodes in insertion order (IndexMap); adj[n]: the adjacency list
\* of n, entries <<neighbour, dir>> in insertion order; edges: the edge set.
Outgoing == "Outgoing"
Incoming == "Incoming"

DiGraphMapNew == [keys |-> <<>>, adj |-> <<>>, edges |-> {}]

HasNode(g, n) == n \in Range(g.keys)

Adj(g, n) == g.adj[IndexOf(g.keys, n)]

add_node(g, n) ==
    IF HasNode(g, n) THEN g
    ELSE [g EXCEPT !.keys = Append(@, n), !.adj = Append(@, <<>>)]

PushAdj(g, n, entry) ==
    LET h == add_node(g, n)
    IN [h EXCEPT !.adj[IndexOf(h.keys, n)] = Append(@, entry)]

add_edge(g, a, b) ==
    IF <<a, b>> \in g.edges THEN g
    ELSE LET g1 == PushAdj([g EXCEPT !.edges = @ \cup {<<a, b>>}], a, <<b, Outgoing>>)
         IN IF a # b THEN PushAdj(g1, b, <<a, Incoming>>) ELSE g1

RECURSIVE add_edges(_, _, _)
\* add_edge(src[1], dst), add_edge(src[2], dst), ... in this order
add_edges(g, srcs, dst) ==
    IF srcs = <<>> THEN g
    ELSE add_edges(add_edge(g, Head(srcs), dst), Tail(srcs), dst)

\* neighbors_directed(n, dir): the entries of that direction, and self loops
neighbors_directed(g, n, dir) ==
    LET l == Adj(g, n)
        keep == SelectSeq(l, LAMBDA e : e[2] = dir \/ e[1] = n)
    IN [i \in 1..Len(keep) |-> keep[i][1]]

\* ------------------------------------------------ petgraph::algo::toposort
RECURSIVE TopoDfs(_, _)
\* the inner `while let Some(&nx) = dfs.stack.last()` loop of the first phase
TopoDfs(g, s) ==
    IF s.cycle \/ s.stack = <<>> THEN s
    ELSE LET nx == s.stack[Len(s.stack)] IN
         IF nx \notin s.discovered
         THEN LET succ == neighbors_directed(g, nx, Outgoing)
                  disc == s.discovered \cup {nx}
              IN IF nx \in Range(succ)
                 THEN [s EXCEPT !.cycle = TRUE]
                 ELSE TopoDfs(g, [s EXCEPT
                          !.discovered = disc,
                          !.stack = @ \o SelectSeq(succ, LAMBDA x : x \notin disc)])
         ELSE TopoDfs(g, [s EXCEPT
                  !.stack = SubSeq(@, 1, Len(@) - 1),
                  !.finished = @ \cup {nx},
                  !.finish_stack = IF nx \in s.finished THEN @ ELSE Append(@, nx)])

RECURSIVE TopoRoots(_, _, _)
\* `for i in g.node_identifiers().rev()`
TopoRoots(g, roots, s) ==
    IF s.cycle \/ roots = <<>> THEN s
    ELSE LET i == Head(roots) IN
         IF i \in s.discovered THEN TopoRoots(g, Tail(roots), s)
         ELSE TopoRoots(g, Tail(roots), TopoDfs(g, [s EXCEPT !.stack = <<i>>]))

RECURSIVE TopoVerify(_, _, _)
\* the second phase: a reverse DFS from each node of the candidate order must
\* discover that node alone
TopoVerify(g, order, discovered) ==
    IF order = <<>> THEN TRUE
    ELSE LET i == Head(order)
             pred == neighbors_directed(g, i, Incoming)
         IN /\ i \notin discovered
            /\ \A p \in Range(pred) : p \in discovered \cup {i}
            /\ TopoVerify(g, Tail(order), discovered \cup {i})

\* Ok(order) or Err(Cycle)
toposort(g) ==
    LET s == TopoRoots(g, Reverse(g.keys),
                 [stack |-> <<>>, discovered |-> {}, finished |-> {},
                  finish_stack |-> <<>>, cycle |-> FALSE])
        order == Reverse(s.finish_stack)
    IN IF s.cycle \/ ~TopoVerify(g, order, {})
       THEN [ok |-> FALSE, order |-> <<>>]
       ELSE [ok |-> TRUE, order |-> order]

\* -------------------------------------------------------------- schedulers
\* AddNodes with the first loop left out: a node enters the dependency graph
\* only as the endpoint of an edge
AddNodes_Skipped(g, ids) == g

RECURSIVE AddNodes(_, _)
\* `for ... { dep_graph.add_node(idx) }` over the ids in list order
AddNodes(g, ids) ==
    IF ids = <<>> THEN g ELSE AddNodes(add_node(g, Head(ids)), Tail(ids))

RECURSIVE AddDeps(_, _, _)
\* the second loop: for each node in list order, one edge operand -> node per
\* operand that the scheduler's match arm names (deps[idx + 1])
AddDeps(g, deps, idx) ==
    IF idx >= Len(deps) THEN g
    ELSE AddDeps(add_edges(g, deps[idx + 1], idx), deps, idx + 1)

\* backends/scheduler.rs: the operands topo_order's match names
TopoDeps(op) ==
    CASE op.kind = "BinaryOp" -> <<op.l_id, op.r_id>>
      [] op.kind = "UnaryOp" -> <<op.v_id>>
      [] op.kind = "FusedMulAdd" -> <<op.a_id, op.b_id, op.c_id>>
      [] op.kind = "MatMul" ->
            <<op.l_id, op.r_id>> \o (IF op.o_id # None THEN <<op.o_id>> ELSE <<>>)
      [] op.kind = "Permute" -> <<op.v_id>>
      [] OTHER -> <<>>

\* cpu_storage/mod.rs: the operands compile_and_run_graph's match names
CpuDeps(op) ==
    CASE op.kind \in {"BinaryOp", "InplaceBinaryOp"} -> <<op.l_id, op.r_id>>
      [] op.kind = "UnaryOp" -> <<op.v_id>>
      [] op.kind \in {"FusedMulAdd", "InplaceFusedMulAdd"} -> <<op.a_id, op.b_id, op.c_id>>
      [] op.kind = "MatMul" -> <<op.l_id, op.r_id>>
      [] OTHER -> <<>>

\* cuda_backend/mod.rs: the operands compile's match names
CudaDeps(op) ==
    CASE op.kind = "BinaryOp" -> <<op.l_id, op.r_id>>
      [] op.kind = "UnaryOp" -> <<op.v_id>>
      [] op.kind = "FusedMulAdd" -> <<op.a_id, op.b_id, op.c_id>>
      [] op.kind = "MatMul" -> <<op.l_id, op.r_id>>
      [] OTHER -> <<>>

\* the ids of the node list, in list order
NodeIds(graph) == [i \in 1..Len(graph) |-> i - 1]

dep_graph(ids, deps) == AddDeps(AddNodes(DiGraphMapNew, ids), deps, 0)

\* toposort(&dep_graph, None).expect("Cycle detected in graph!"): ok = FALSE
\* is the panic
topo_order(graph) ==
    toposort(dep_graph(NodeIds(graph), [i \in 1..Len(graph) |-> TopoDeps(graph[i].op)]))
cpu_order(graph) ==
    toposort(dep_graph(NodeIds(graph), [i \in 1..Len(graph) |-> CpuDeps(graph[i].op)]))
cuda_order(graph) ==
    toposort(dep_graph(NodeIds(graph), [i \in 1..Len(graph) |-> CudaDeps(graph[i].op)]))

\* the op variants of the enum each scheduler was compiled against
CpuKinds == {"Fill", "Arange", "UnaryOp", "BinaryOp", "InplaceBinaryOp", "FusedMulAdd",
             "InplaceFusedMulAdd", "MatMul", "NoOp"}
CudaKinds == {"Fill", "Arange", "UnaryOp", "BinaryOp", "FusedMulAdd", "MatMul", "NoOp"}
KindsIn(graph, K) ==
    \A i \in 1..Len(graph) :
        /\ graph[i].op.kind \in K
        /\ graph[i].op.kind = "MatMul" => graph[i].op.o_id = None

\* --------------------------------------------- node lists for scheduling
\* Every operand of an op, whatever the scheduler does with it.
Operands(op) ==
    CASE op.kind \in {"BinaryOp", "InplaceBinaryOp"} -> <<op.l_id, op.r_id>>
      [] op.kind \in {"UnaryOp", "Permute"} -> <<op.v_id>>
      [] op.kind \in {"FusedMulAdd", "InplaceFusedMulAdd"} -> <<op.a_id, op.b_id, op.c_id>>
      [] op.kind = "MatMul" ->
            <<op.l_id, op.r_id>> \o (IF op.o_id # None THEN <<op.o_id>> ELSE <<>>)
      [] OTHER -> <<>>

Variants == {"plain", "inplace", "matmul"}

\* the op of a variant whose operands are the ids of S (ascending)
OpOver(variant, S) ==
    LET o == SetToSeq(S)
        x == o[1]
        y == o[IF Len(o) >= 2 THEN 2 ELSE 1]
        z == o[Len(o)]
    IN IF S = {} THEN (CASE variant = "plain" -> Fill(1)
                         [] variant = "inplace" -> Arange(0, 1, 2)
                         [] variant = "matmul" -> NoOp)
       ELSE CASE variant = "plain" ->
                  (CASE Len(o) = 1 -> UnaryOp(x, "Neg")
                     [] Len(o) = 2 -> BinaryOp(x, y, "Add")
                     [] OTHER -> FusedMulAdd(x, y, z))
              [] variant = "inplace" ->
                  (CASE Len(o) = 1 -> InplaceBinaryOp(x, x, x, "Add")
                     [] Len(o) = 2 -> InplaceBinaryOp(y, x, y, "Add")
                     [] OTHER -> InplaceFusedMulAdd(x, y, z, x))
              [] variant = "matmul" ->
                  (CASE Len(o) = 1 -> Permute(x)
                     [] Len(o) = 2 -> MatMul(x, y, None)
                     [] OTHER -> MatMul(x, y, z))

OperandSets(n) == {S \in SUBSET (0..(n - 1)) : Cardinality(S) <= 3}

Shape1 == <<2>>

NoSched == [by |-> "none", ok |-> FALSE, order |-> <<>>]

\* no conversion has run yet / no optimizer rewrite was applied
NoTensor ==
    [by |-> "none", handle |-> None, dev |-> "none", status |-> "none",
     results |-> <<>>, output |-> <<>>, released |-> {}]
NoRewrite == [kind |-> "none", at |-> None]

\* no launch_gemm call was set up / the CUDA device is not in use
NoGemm == [variant |-> "none"]
NoCuda == [phase |-> "none"]

\* a single-threaded program
NoThreads == [kind |-> "none"]

SchedInit ==
    /\ \E n \in 1..MaxNodes : \E variant \in Variants : \E f \in [1..n -> OperandSets(n)] :
           nodes = [i \in 1..n |-> GraphNode(OpOver(variant, f[i]), Shape1)]
    /\ sched = NoSched
    /\ id = Len(nodes)
    /\ tensor = NoTensor
    /\ base = <<>>
    /\ rewrite = NoRewrite
    /\ gemm = NoGemm
    /\ cuda = NoCuda
    /\ threads = NoThreads

\* scheduler::topo_order(&graph)
TopoOrder ==
    /\ sched.by = "none"
    /\ tensor.by = "none"
    /\ sched' = [by |-> "topo_order"] @@ topo_order(nodes)
    /\ UNCHANGED <<nodes, id, tensor, base, rewrite, gemm, cuda, threads>>

\* the scheduling part of CpuDevice::compile_and_run_graph
CpuSchedule ==
    /\ sched.by = "none"
    /\ tensor.by = "none"
    /\ KindsIn(nodes, CpuKinds)
    /\ sched' = [by |-> "cpu"] @@ cpu_order(nodes)
    /\ UNCHANGED <<nodes, id, tensor, base, rewrite, gemm, cuda, threads>>

\* the scheduling part of CudaDevice::compile
CudaSchedule ==
    /\ sched.by = "none"
    /\ tensor.by = "none"
    /\ KindsIn(nodes, CudaKinds)
    /\ sched' = [by |-> "cuda"] @@ cuda_order(nodes)
    /\ UNCHANGED <<nodes, id, tensor, base, rewrite, gemm, cuda, threads>>

\* ------------------------------------------------------ scheduling claims
\* the ids reachable from the ids of S along operand -> consumer references
RECURSIVE Consumers(_, _)
Consumers(graph, S) ==
    LET step == {i \in Ids(graph) : \E o \in Range(Operands(graph[i + 1].op)) : o \in S}
    IN IF step \subseteq S THEN S ELSE Consumers(graph, S \cup step)

DirectConsumers(graph, x) ==
    {i \in Ids(graph) : x \in Range(Operands(graph[i + 1].op))}

\* a node names itself as an operand, or two or more nodes reach each other
HasCycle(graph) ==
    \E x \in Ids(graph) :
        LET d == DirectConsumers(graph, x)
        IN d # {} /\ x \in Consumers(graph, d)

Acyclic(graph) == ~HasCycle(graph)

Scheduled == sched.by # "none"

OperandsFirst(graph, order) ==
    \A i \in Ids(graph) : \A o \in Range(Operands(graph[i + 1].op)) :
        /\ o \in Range(order)
        /\ i \in Range(order)
        /\ IndexOf(order, o) < IndexOf(order, i)

\* C1: for every acyclic node list the order a scheduler returns places every
\* operand of a node before that node, for every op variant with operands
\* (UnaryOp, BinaryOp, InplaceBinaryOp, FusedMulAdd, InplaceFusedMulAdd,
\* Permute, MatMul with its optional accumulator).
C1_OperandsBeforeConsumer ==
    (Scheduled /\ Acyclic(nodes)) => (sched.ok /\ OperandsFirst(nodes, sched.order))

\* C2: if the operand references contain a cycle, scheduling aborts with the
\* fatal 'Cycle detected in graph!' failure and returns no order.
C2_CycleAborts ==
    (Scheduled /\ HasCycle(nodes)) => ~sched.ok

\* C3: for every acyclic node list of n nodes topo_order returns a sequence of
\* length n in which each index 0..n-1 occurs exactly once.
C3_Permutation ==
    (sched.by = "topo_order" /\ Acyclic(nodes)) =>
        /\ sched.ok
        /\ Len(sched.order) = Len(nodes)
        /\ Range(sched.order) = Ids(nodes)

\* an acyclic list of three or more nodes, one of them with neither operands
\* nor consumers and one with operands, scheduled by topo_order in an order
\* that is not the list order
C3_Witness ==
    /\ sched.by = "topo_order"
    /\ Acyclic(nodes)
    /\ Len(nodes) >= 3
    /\ \E i \in Ids(nodes) :
          Operands(nodes[i + 1].op) = <<>> /\ DirectConsumers(nodes, i) = {}
    /\ \E i \in Ids(nodes) : TopoDeps(nodes[i + 1].op) # <<>>
    /\ sched.ok
    /\ sched.order # NodeIds(nodes)

\* ------------------------------------------------------- element type (i32)
\* Fill constants and graph depths are bounded so that every intermediate
\* value stays far inside the i32 range; arithmetic is then exact.
Abs(x) == IF x < 0 THEN -x ELSE x

\* Rust's (and C's) integer division: the quotient truncated toward zero
TruncDiv(a, b) ==
    LET q == Abs(a) \div Abs(b)
    IN IF (a < 0) # (b < 0) THEN -q ELSE q

\* T::from_f64 of the quotient of two f64 holding integers: a float -> integer
\* cast truncates toward zero
from_f64_quot(num, den) == TruncDiv(num, den)

\* BinaryOpType applied to two elements; DivZero (a value no bounded run reaches) marks the
\* element whose computation panics or is undefined
DivZero == 2147483647
binary_elem(operator, a, b) ==
    CASE operator = "Add" -> a + b
      [] operator = "Sub" -> a - b
      [] operator = "Mul" -> a * b
      [] operator = "Div" -> IF b = 0 THEN DivZero ELSE TruncDiv(a, b)

\* UnaryOpType::to_closure applied to an element
unary_elem(operator, x) == CASE operator = "Neg" -> -x

\* the fused kernel's element: a * b + c
fma_elem(a, b, c) == a * b + c

RECURSIVE elem_count(_)
\* shape.iter().product()
elem_count(shape) == IF shape = <<>> THEN 1 ELSE Head(shape) * elem_count(Tail(shape))

\* -------------------------------------------------------- CPU interpreter
\* A run's state: status ("running", "done", or the fatal failure), the
\* results table (NoBuf = None), the output storage, and the ids of the
\* nodes whose pooled buffers were released to the pool.
NoBuf == <<"None">>
Running == "running"

\* an elementwise kernel over out_elem_count elements; the operand buffers
\* must hold that many elements
SameLen(bufs, n) == \A i \in 1..Len(bufs) : Len(bufs[i]) = n

binary_simd_op(l_buf, r_buf, n, operator) ==
    [i \in 1..n |-> binary_elem(operator, l_buf[i], r_buf[i])]

fma_op(a_buf, b_buf, c_buf, n) ==
    [i \in 1..n |-> fma_elem(a_buf[i], b_buf[i], c_buf[i])]

RECURSIVE ArangeLoop(_, _, _, _)
\* `while x < stop { buf.push(x); x += step }`, entered with step > 0
ArangeLoop(x, step, stop, buf) ==
    IF x < stop THEN ArangeLoop(x + step, step, stop, Append(buf, x)) ELSE buf

\* results[i].as_ref().unwrap() of every id of `ids` succeeds
Present(results, ids) == \A i \in 1..Len(ids) : results[ids[i] + 1] # NoBuf

Fail(st, why) == [st EXCEPT !.status = why]

\* a store that leaves the entry an in-place arm took as it was
Store_KeepTaken(st, idx, taken, data) ==
    IF DivZero \in Range(data) THEN Fail(st, "panic: divide by zero")
    ELSE [st EXCEPT !.results = [@ EXCEPT ![idx + 1] = data]]

\* results[idx] = Some(computed); `taken` is the entry an in-place arm took
Store(st, idx, taken, data) ==
    IF DivZero \in Range(data) THEN Fail(st, "panic: divide by zero")
    ELSE [st EXCEPT !.results =
              [i \in 1..Len(@) |-> IF i = idx + 1 THEN data
                                   ELSE IF i = taken + 1 THEN NoBuf ELSE @[i]]]

\* pool.get_buffer(n): a buffer of n elements
get_buffer(n) == [i \in 1..n |-> 0]

MissingOperand == "panic: unwrap on a missing operand buffer"

\* an elementwise kernel that takes its first operand's entry out of the table
EvalFresh_Take(st, idx, ids, n, data) ==
    IF ~Present(st.results, ids) THEN Fail(st, MissingOperand)
    ELSE IF ~SameLen([i \in 1..Len(ids) |-> st.results[ids[i] + 1]], n)
         THEN Fail(st, "panic: buffer length differs from the element count")
         ELSE Store(st, idx, ids[1], data)

\* one elementwise kernel writing a fresh buffer: operands by as_ref().unwrap()
EvalFresh(st, idx, ids, n, data) ==
    IF ~Present(st.results, ids) THEN Fail(st, MissingOperand)
    ELSE IF ~SameLen([i \in 1..Len(ids) |-> st.results[ids[i] + 1]], n)
         THEN Fail(st, "panic: buffer length differs from the element count")
         ELSE Store(st, idx, None, data)

\* an in-place arm: results[o].take().unwrap() first, then the other operands
\* by as_ref().unwrap() from the table the take has emptied at o
EvalInplace(st, idx, o, others, data) ==
    IF st.results[o + 1] = NoBuf THEN Fail(st, MissingOperand)
    ELSE IF \E i \in 1..Len(others) : others[i] = o \/ st.results[others[i] + 1] = NoBuf
         THEN Fail(st, MissingOperand)
         ELSE IF ~SameLen([i \in 1..Len(others) |-> st.results[others[i] + 1]],
                          Len(st.results[o + 1]))
              THEN Fail(st, "panic: buffer length differs from the element count")
              ELSE Store(st, idx, o, data)

\* the BinaryOp arm with l_buf and r_buf exchanged
BinaryOpArm_Swapped(st, idx, op, n) ==
    EvalFresh(st, idx, <<op.l_id, op.r_id>>, n,
              binary_simd_op(st.results[op.r_id + 1], st.results[op.l_id + 1], n, op.operator))

\* the BinaryOp arm: l_buf, r_buf by reference, a pooled output buffer
BinaryOpArm(st, idx, op, n) ==
    EvalFresh(st, idx, <<op.l_id, op.r_id>>, n,
              binary_simd_op(st.results[op.l_id + 1], st.results[op.r_id + 1], n, op.operator))

RECURSIVE matmul_sum(_, _, _, _, _, _, _)
\* `for p in 0..k_dim { sum = sum + a_data[i * k_dim + p] * b_data[p * n + j] }`
matmul_sum(a_data, b_data, i, j, n, k_dim, p) ==
    IF p = 0 THEN 0
    ELSE matmul_sum(a_data, b_data, i, j, n, k_dim, p - 1)
         + a_data[i * k_dim + (p - 1) + 1] * b_data[(p - 1) * n + j + 1]

MatMul2D == "panic: MatMul requires 2D output shape"

\* the MatMul arm of the CPU enum, Op::MatMul { l_id, r_id, k }: both
\* operands by as_ref().unwrap(), then the assertion on the rank, then
\* out[i * n + j] for i < m, j < n; an index past a buffer's end panics
MatMulArm(st, idx, op, shape) ==
    IF ~Present(st.results, <<op.l_id, op.r_id>>) THEN Fail(st, MissingOperand)
    ELSE IF Len(shape) # 2 THEN Fail(st, MatMul2D)
    ELSE LET m == shape[1]
             n == shape[2]
             a_data == st.results[op.l_id + 1]
             b_data == st.results[op.r_id + 1]
         IN IF m > 0 /\ n > 0 /\ op.k > 0
               /\ (m * op.k > Len(a_data) \/ op.k * n > Len(b_data))
            THEN Fail(st, "panic: index out of bounds")
            ELSE Store(st, idx, None,
                       [e \in 1..(m * n) |->
                           matmul_sum(a_data, b_data, (e - 1) \div n, (e - 1) % n,
                                      n, op.k, op.k)])

\* the body of `for idx in order`: evaluate node idx and store its buffer
EvalNode(graph, st, idx) ==
    LET op == graph[idx + 1].op
        n == elem_count(graph[idx + 1].shape)
        R(i) == st.results[i + 1]
    IN CASE op.kind = "BinaryOp" -> BinaryOpArm(st, idx, op, n)
         [] op.kind = "InplaceBinaryOp" ->
              IF op.out = op.l_id
              THEN EvalInplace(st, idx, op.l_id, <<op.r_id>>,
                       binary_simd_op(R(op.l_id), R(op.r_id), Len(R(op.l_id)), op.operator))
              ELSE IF op.out = op.r_id
              THEN EvalInplace(st, idx, op.r_id, <<op.l_id>>,
                       binary_simd_op(R(op.l_id), R(op.r_id), Len(R(op.r_id)), op.operator))
              ELSE Fail(st, "panic: unreachable")
         [] op.kind = "Fill" -> Store(st, idx, None, [i \in 1..n |-> op.v])
         [] op.kind = "Arange" ->
              IF op.start < op.stop /\ op.step <= 0
              THEN Fail(st, "the Arange loop never ends")
              ELSE Store(st, idx, None, ArangeLoop(op.start, op.step, op.stop, <<>>))
         [] op.kind = "UnaryOp" ->
              IF ~Present(st.results, <<op.v_id>>) THEN Fail(st, MissingOperand)
              ELSE Store(st, idx, None,
                       [i \in 1..n |-> IF i <= Len(R(op.v_id))
                                       THEN unary_elem(op.operator, R(op.v_id)[i])
                                       ELSE get_buffer(n)[i]])
         [] op.kind = "FusedMulAdd" ->
              EvalFresh(st, idx, <<op.a_id, op.b_id, op.c_id>>, n,
                        fma_op(R(op.a_id), R(op.b_id), R(op.c_id), n))
         [] op.kind = "InplaceFusedMulAdd" ->
              IF op.out = op.a_id
                 THEN EvalInplace(st, idx, op.a_id, <<op.b_id, op.c_id>>,
                          fma_op(R(op.a_id), R(op.b_id), R(op.c_id), Len(R(op.a_id))))
                 ELSE IF op.out = op.b_id
                 THEN EvalInplace(st, idx, op.b_id, <<op.a_id, op.c_id>>,
                          fma_op(R(op.a_id), R(op.b_id), R(op.c_id), Len(R(op.b_id))))
                 ELSE IF op.out = op.c_id
                 THEN EvalInplace(st, idx, op.c_id, <<op.a_id, op.b_id>>,
                          fma_op(R(op.a_id), R(op.b_id), R(op.c_id), Len(R(op.c_id))))
                 ELSE Fail(st, "panic: unreachable")
         [] op.kind = "MatMul" -> MatMulArm(st, idx, op, graph[idx + 1].shape)
         [] op.kind = "NoOp" -> Fail(st, "panic: NoOp should not be evaluated.")

RECURSIVE EvalOrder(_, _, _)
\* `for idx in order { ... }`: a fatal failure ends the run
EvalOrder(graph, st, order) ==
    IF order = <<>> \/ st.status # Running THEN st
    ELSE EvalOrder(graph,
                   EvalNode(graph, [st EXCEPT !.dispatched = Append(@, Head(order))],
                            Head(order)),
                   Tail(order))

\* extraction of the first node's buffer instead of the last one's
final_idx_First(graph) == 0

\* the index whose buffer the run extracts
final_idx(graph) == Len(graph) - 1

\* `results[final_idx].take().unwrap().into_inner()`, then the locals drop:
\* every buffer still in the table goes back to the pool
Extract(graph, st) ==
    LET f == final_idx(graph) IN
    IF st.status # Running THEN st
    ELSE IF st.results[f + 1] = NoBuf THEN Fail(st, MissingOperand)
    ELSE [status |-> "done",
          results |-> [st.results EXCEPT ![f + 1] = NoBuf],
          output |-> st.results[f + 1],
          released |-> {i \in Ids(graph) : i # f /\ st.results[i + 1] # NoBuf},
          dispatched |-> st.dispatched]

RunStart(graph) ==
    [status |-> Running, results |-> [i \in 1..Len(graph) |-> NoBuf],
     output |-> <<>>, released |-> {}, dispatched |-> <<>>]

\* CpuDevice::compile_and_run_graph on a non-empty node list
compile_and_run_graph(graph) ==
    LET order == cpu_order(graph) IN
    IF ~order.ok THEN Fail(RunStart(graph), "panic: Cycle detected in graph!")
    ELSE Extract(graph, EvalOrder(graph, RunStart(graph), order.order))

\* ------------------------------------------------------ CUDA code generation
\* Rendered text is kept as the C++ expression tree it denotes: a variable
\* (vN), a parenthesised binary expression, a unary expression, the fma call.
\* The header is the list of declarations `T vN = ...;` in rendering order.
CVar(name) == [e |-> "var", name |-> name]
CBin(l, c_op, r) == [e |-> "bin", l |-> l, c_op |-> c_op, r |-> r]
CUnary(c_op, v) == [e |-> "unary", c_op |-> c_op, v |-> v]
CFma(a, b, c) == [e |-> "fma", a |-> a, b |-> b, c |-> c]

\* BinaryOpType::as_c_op
as_c_op(operator) ==
    CASE operator = "Add" -> "+" [] operator = "Sub" -> "-"
      [] operator = "Mul" -> "*" [] operator = "Div" -> "/"

\* UnaryOpType::fill_in_c_op
fill_in_c_op(operator, v_name) == CASE operator = "Neg" -> CUnary("-", v_name)

\* a rendering of FusedMulAdd that drops the addend
render_fma_NoAdd(a_name, b_name, c_name) == CBin(a_name, "*", b_name)

\* the FusedMulAdd arm: static_cast<T>(fma(double(a), double(b), double(c)))
render_fma(a_name, b_name, c_name) == CFma(a_name, b_name, c_name)

RECURSIVE handle_node(_, _, _, _)
\* returns [name: current_name afterwards, header, body]
handle_node(current_name, header, op, graph) ==
    CASE op.kind = "BinaryOp" ->
            LET l == handle_node(current_name, header, graph[op.l_id + 1].op, graph)
                r == handle_node(l.name, l.header, graph[op.r_id + 1].op, graph)
            IN [r EXCEPT !.body = CBin(l.body, as_c_op(op.operator), r.body)]
      [] op.kind = "UnaryOp" ->
            LET v == handle_node(current_name, header, graph[op.v_id + 1].op, graph)
            IN [v EXCEPT !.body = fill_in_c_op(op.operator, v.body)]
      [] op.kind = "Fill" ->
            [name |-> current_name + 1,
             header |-> Append(header, [name |-> current_name + 1, decl |-> "const",
                                       v |-> op.v]),
             body |-> CVar(current_name + 1)]
      [] op.kind = "Arange" ->
            [name |-> current_name + 1,
             header |-> Append(header, [name |-> current_name + 1, decl |-> "arange",
                                       step |-> op.step, start |-> op.start]),
             body |-> CVar(current_name + 1)]
      [] op.kind = "FusedMulAdd" ->
            LET a == handle_node(current_name, header, graph[op.a_id + 1].op, graph)
                b == handle_node(a.name, a.header, graph[op.b_id + 1].op, graph)
                c == handle_node(b.name, b.header, graph[op.c_id + 1].op, graph)
            IN [c EXCEPT !.body = render_fma(a.body, b.body, c.body)]

\* the value of declaration d in loop iteration i
DeclValue(d, i) ==
    IF d.decl = "const" THEN d.v ELSE i * d.step + d.start

RECURSIVE CEval(_, _, _)
\* the value of a rendered expression in iteration i of the kernel's loop
CEval(header, body, i) ==
    CASE body.e = "var" ->
            DeclValue(header[CHOOSE k \in 1..Len(header) : header[k].name = body.name], i)
      [] body.e = "bin" ->
            LET lv == CEval(header, body.l, i)
                rv == CEval(header, body.r, i)
            IN IF lv = DivZero \/ rv = DivZero THEN DivZero
               ELSE (CASE body.c_op = "+" -> lv + rv
                       [] body.c_op = "-" -> lv - rv
                       [] body.c_op = "*" -> lv * rv
                       [] body.c_op = "/" -> IF rv = 0 THEN DivZero ELSE TruncDiv(lv, rv))
      [] body.e = "unary" ->
            LET xv == CEval(header, body.v, i)
            IN IF xv = DivZero THEN DivZero ELSE -xv
      [] body.e = "fma" ->
            LET av == CEval(header, body.a, i)
                bv == CEval(header, body.b, i)
                cv == CEval(header, body.c, i)
            IN IF DivZero \in {av, bv, cv} THEN DivZero ELSE av * bv + cv

RECURSIVE Unreachable(_, _)
\* rendering op reaches one of handle_node's unreachable! arms (NoOp, MatMul)
Unreachable(op, graph) ==
    CASE op.kind \in {"NoOp", "MatMul"} -> TRUE
      [] op.kind = "BinaryOp" ->
            Unreachable(graph[op.l_id + 1].op, graph) \/ Unreachable(graph[op.r_id + 1].op, graph)
      [] op.kind = "UnaryOp" -> Unreachable(graph[op.v_id + 1].op, graph)
      [] op.kind = "FusedMulAdd" ->
            \/ Unreachable(graph[op.a_id + 1].op, graph)
            \/ Unreachable(graph[op.b_id + 1].op, graph)
            \/ Unreachable(graph[op.c_id + 1].op, graph)
      [] OTHER -> FALSE

\* a grouping that puts every scheduled node into a group of its own
Splits_Single(graph, order, splits) == [g \in 1..Len(order) |-> <<order[g]>>]

RECURSIVE Splits(_, _, _)
\* the greedy grouping of the schedule: a node joins the last group when its
\* shape equals the shape of that group's last node
Splits(graph, order, splits) ==
    IF order = <<>> THEN splits
    ELSE LET idx == Head(order)
             last == splits[Len(splits)]
         IN IF splits # <<>> /\ graph[last[Len(last)] + 1].shape = graph[idx + 1].shape
            THEN Splits(graph, Tail(order),
                        [splits EXCEPT ![Len(splits)] = Append(@, idx)])
            ELSE Splits(graph, Tail(order), Append(splits, <<idx>>))

SeqMax(s) == CHOOSE x \in Range(s) : \A y \in Range(s) : y <= x

\* a kernel that inlines the nodes of its own group only and takes 0 for
\* every node of another group
Kernel_Local(graph, sub_order) ==
    LET last == graph[sub_order[Len(sub_order)] + 1]
        own == [i \in 1..Len(graph) |->
                   IF i - 1 \in Range(sub_order) THEN graph[i]
                   ELSE GraphNode(Fill(0), graph[i].shape)]
        r == handle_node(0, <<>>, last.op, own)
    IN [header |-> r.header, body |-> r.body, shape |-> last.shape, order |-> SeqMax(sub_order)]

\* one CudaCompiledKernel per group: the expression of the group's last node,
\* the group's shape, and the largest index of the group as `order`
Kernel(graph, sub_order) ==
    LET last == graph[sub_order[Len(sub_order)] + 1]
        r == handle_node(0, <<>>, last.op, graph)
    IN [header |-> r.header, body |-> r.body, shape |-> last.shape, order |-> SeqMax(sub_order)]

\* the node whose expression is rendered for a group
Rendered_node(sub_order) == sub_order[Len(sub_order)]

\* CudaDevice::compile (every kernel compiles and loads): the schedule, the
\* groups, and one kernel per group unless a rendering panics
compile(graph) ==
    LET order == cuda_order(graph) IN
    IF ~order.ok
    THEN [ok |-> FALSE, why |-> "panic: Cycle detected in graph!", order |-> <<>>,
          splits |-> <<>>, kernels |-> <<>>]
    ELSE LET splits == Splits(graph, order.order, <<>>)
         IN IF \E g \in 1..Len(splits) :
                   Unreachable(graph[Rendered_node(splits[g]) + 1].op, graph)
            THEN [ok |-> FALSE, why |-> "panic: unreachable arm of handle_node",
                  order |-> order.order, splits |-> splits, kernels |-> <<>>]
            ELSE [ok |-> TRUE, why |-> "done", order |-> order.order, splits |-> splits,
                  kernels |-> [g \in 1..Len(splits) |-> Kernel(graph, splits[g])]]

\* run_kernel: buf[i] = body for every i < numel
run_kernel(k) ==
    [i \in 1..elem_count(k.shape) |-> CEval(k.header, k.body, i - 1)]

\* CudaDevice::run_graph: every kernel runs; the storage under the largest
\* `order` key is returned
returned_kernel(kernels) ==
    LET key == SeqMax([g \in 1..Len(kernels) |-> kernels[g].order])
    IN CHOOSE g \in 1..Len(kernels) : kernels[g].order = key

run_graph(compiled) == run_kernel(compiled.kernels[returned_kernel(compiled.kernels)])

\* to_tensor on a Cuda device: compile, run, copy to the host
cuda_compile_and_run(graph) ==
    LET c == compile(graph) IN
    IF ~c.ok THEN Fail(RunStart(graph), c.why)
    ELSE LET out == run_graph(c)
         IN IF DivZero \in Range(out)
            THEN Fail(RunStart(graph), "undefined: integer division by zero")
            ELSE [RunStart(graph) EXCEPT !.status = "done", !.output = out]

\* ------------------------------------------------------------ the front end
\* Every front-end tensor has the shape R1<NumElems>; the element type is i32.
NumElems == 2
FrontShape == <<NumElems>>

\* an add_op that inserts at the front of the node list
add_op_Front(graph, op, shape) == <<GraphNode(op, shape)>> \o graph

\* Graph::add_op: push at the end of the node list
add_op(graph, op, shape) == Append(graph, GraphNode(op, shape))

\* a next_id that advances the counter by two
next_id_Twice(counter) == [id |-> counter, counter |-> counter + 2]

\* Graph::next_id: the counter's value is returned, the counter grows by one
next_id(counter) == [id |-> counter, counter |-> counter + 1]

\* the ids of the handles the program holds: one per completed operation
Handles == 0..(id - 1)

Building(n) ==
    /\ tensor.by = "none"
    /\ sched.by = "none"
    /\ rewrite.kind = "none"
    /\ Len(nodes) < n

\* GraphTensor::fill(graph, v)
fill(v) ==
    /\ Building(MaxNodes)
    /\ nodes' = add_op(nodes, Fill(v), FrontShape)
    /\ id' = next_id(id).counter
    /\ UNCHANGED <<sched, tensor, base, rewrite, gemm, cuda, threads>>

\* GraphTensor::arange(graph, start, stop) over R1<NumElems>
arange(start, stop) ==
    /\ Building(MaxNodes)
    /\ nodes' = add_op(nodes, Arange(start, from_f64_quot(stop - start, NumElems), stop),
                       FrontShape)
    /\ id' = next_id(id).counter
    /\ UNCHANGED <<sched, tensor, base, rewrite, gemm, cuda, threads>>

\* the Add / Sub / Mul / Div operators of two handles of the graph
binop(self, rhs, operator) ==
    /\ Building(MaxNodes)
    /\ nodes' = add_op(nodes, BinaryOp(self, rhs, operator), FrontShape)
    /\ id' = next_id(id).counter
    /\ UNCHANGED <<sched, tensor, base, rewrite, gemm, cuda, threads>>

\* the Neg operator of a handle
neg(self) ==
    /\ Building(MaxNodes)
    /\ nodes' = add_op(nodes, UnaryOp(self, "Neg"), FrontShape)
    /\ id' = next_id(id).counter
    /\ UNCHANGED <<sched, tensor, base, rewrite, gemm, cuda, threads>>

\* GraphTensor::to_tensor of the handle `self` on device dev: the whole node
\* list goes to the device's compile_and_run_graph
to_tensor(self, dev) ==
    /\ tensor.by = "none"
    /\ sched.by = "none"
    /\ nodes # <<>>
    /\ tensor' = [by |-> "to_tensor", handle |-> self, dev |-> dev] @@
                 (IF dev = "Cpu" THEN compile_and_run_graph(nodes)
                  ELSE cuda_compile_and_run(nodes))
    /\ UNCHANGED <<nodes, sched, id, base, rewrite, gemm, cuda, threads>>

\* CpuDevice::compile_and_run_graph called on a node list directly
CpuRun ==
    /\ tensor.by = "none"
    /\ sched.by = "none"
    /\ KindsIn(nodes, CpuKinds \ {"MatMul"})
    /\ tensor' = [by |-> "cpu", handle |-> None, dev |-> "Cpu"] @@
                 compile_and_run_graph(nodes)
    /\ UNCHANGED <<nodes, sched, id, base, rewrite, gemm, cuda, threads>>

\* ------------------------------------------------------------ the optimizer
\* Mul(a, b) followed by Add(that product, c): the Add node j becomes
\* FusedMulAdd{a, b, c}
fuse_mul_add(j) ==
    /\ tensor.by = "none"
    /\ rewrite.kind = "none"
    /\ j \in Ids(nodes)
    /\ nodes[j + 1].op.kind = "BinaryOp"
    /\ nodes[j + 1].op.operator = "Add"
    /\ LET mul == nodes[nodes[j + 1].op.l_id + 1].op IN
         /\ mul.kind = "BinaryOp"
         /\ mul.operator = "Mul"
         /\ nodes' = [nodes EXCEPT ![j + 1].op =
                          FusedMulAdd(mul.l_id, mul.r_id, nodes[j + 1].op.r_id)]
    /\ base' = nodes
    /\ rewrite' = [kind |-> "fma", at |-> j]
    /\ UNCHANGED <<sched, id, tensor, gemm, cuda, threads>>

\* no node scheduled after j reads the buffer of `out`
NoLaterReader(graph, j, out) ==
    LET order == cpu_order(graph).order IN
    \A k \in Ids(graph) :
        IndexOf(order, k) > IndexOf(order, j) => out \notin Range(Operands(graph[k + 1].op))

\* the in-place variant of the BinaryOp / FusedMulAdd `op` that overwrites `out`
InplaceVariant(op, out) ==
    IF op.kind = "BinaryOp" THEN InplaceBinaryOp(out, op.l_id, op.r_id, op.operator)
    ELSE InplaceFusedMulAdd(op.a_id, op.b_id, op.c_id, out)

\* node j becomes its in-place variant: `out` is one of its operands and has
\* no consumer scheduled later
make_inplace(j, out) ==
    /\ tensor.by = "none"
    /\ rewrite.kind \in {"none", "fma"}
    /\ j \in Ids(nodes)
    /\ nodes[j + 1].op.kind \in {"BinaryOp", "FusedMulAdd"}
    /\ out \in Range(Operands(nodes[j + 1].op))
    /\ NoLaterReader(nodes, j, out)
    /\ nodes' = [nodes EXCEPT ![j + 1].op = InplaceVariant(@, out)]
    /\ base' = nodes
    /\ rewrite' = [kind |-> "inplace", at |-> j]
    /\ UNCHANGED <<sched, id, tensor, gemm, cuda, threads>>

\* ---------------------------------------------------------- specifications
SchedNext == TopoOrder \/ CpuSchedule \/ CudaSchedule \/ CpuRun

\* node lists of any shape of references, handed to the schedulers and the CPU run
SpecSched == SchedInit /\ [][SchedNext]_vars

FillVals == {-3, 2}
ArangeArgs == {<<0, NumElems>>, <<NumElems, 0>>, <<0, 1>>}
Operators == {"Add", "Sub", "Mul", "Div"}

FrontInit ==
    /\ nodes = <<>>
    /\ sched = NoSched
    /\ id = 0
    /\ tensor = NoTensor
    /\ base = <<>>
    /\ rewrite = NoRewrite
    /\ gemm = NoGemm
    /\ cuda = NoCuda
    /\ threads = NoThreads

FrontNext ==
    \/ \E v \in FillVals : fill(v)
    \/ \E a \in ArangeArgs : arange(a[1], a[2])
    \/ \E l \in Handles : \E r \in Handles : \E operator \in Operators : binop(l, r, operator)
    \/ \E v \in Handles : neg(v)
    \/ \E h \in Handles : to_tensor(h, "Cpu")

\* a program that builds a graph through the front end and converts a handle
\* on the CPU device
SpecFront == FrontInit /\ [][FrontNext]_vars

CudaNext ==
    \/ \E v \in FillVals : fill(v)
    \/ \E a \in ArangeArgs : arange(a[1], a[2])
    \/ \E l \in Handles : \E r \in Handles : \E operator \in Operators : binop(l, r, operator)
    \/ \E v \in Handles : neg(v)
    \/ \E h \in Handles : to_tensor(h, "Cuda")

\* the same program converting on the Cuda device
SpecCuda == FrontInit /\ [][CudaNext]_vars

OptNext ==
    \/ \E v \in FillVals : fill(v)
    \/ \E l \in Handles : \E r \in Handles : \E operator \in Operators : binop(l, r, operator)
    \/ \E j \in Ids(nodes) : fuse_mul_add(j)
    \/ \E j \in Ids(nodes) : \E out \in Ids(nodes) : make_inplace(j, out)
    \/ to_tensor(id - 1, "Cpu")

\* a program that builds a graph, optimizes it and converts the last handle
SpecOpt == FrontInit /\ [][OptNext]_vars

\* ------------------------------------------------------- execution claims
RECURSIVE NodeValue(_, _)
\* the buffer the op of node i denotes, over the buffers its operands denote
NodeValue(graph, i) ==
    LET op == graph[i + 1].op
        n == elem_count(graph[i + 1].shape)
    IN CASE op.kind = "Fill" -> [k \in 1..n |-> op.v]
         [] op.kind = "Arange" -> ArangeLoop(op.start, op.step, op.stop, <<>>)
         [] op.kind = "UnaryOp" ->
              LET x == NodeValue(graph, op.v_id)
              IN [k \in 1..n |-> IF k <= Len(x) THEN -x[k] ELSE 0]
         [] op.kind \in {"BinaryOp", "InplaceBinaryOp"} ->
              LET x == NodeValue(graph, op.l_id)
                  y == NodeValue(graph, op.r_id)
              IN [k \in 1..Len(x) |-> binary_elem(op.operator, x[k], y[k])]
         [] op.kind \in {"FusedMulAdd", "InplaceFusedMulAdd"} ->
              LET x == NodeValue(graph, op.a_id)
                  y == NodeValue(graph, op.b_id)
                  z == NodeValue(graph, op.c_id)
              IN [k \in 1..Len(x) |-> x[k] * y[k] + z[k]]

RECURSIVE ScalarExpr(_, _)
\* the scalar expression of node i over the fill constants, integer division
\* truncating toward zero
ScalarExpr(graph, i) ==
    LET op == graph[i + 1].op
    IN CASE op.kind = "Fill" -> op.v
         [] op.kind = "UnaryOp" -> 0 - ScalarExpr(graph, op.v_id)
         [] op.kind = "BinaryOp" ->
              LET x == ScalarExpr(graph, op.l_id)
                  y == ScalarExpr(graph, op.r_id)
              IN (CASE op.operator = "Add" -> x + y
                    [] op.operator = "Sub" -> x - y
                    [] op.operator = "Mul" -> x * y
                    [] op.operator = "Div" ->
                         IF (x < 0) = (y < 0) THEN Abs(x) \div Abs(y)
                         ELSE 0 - (Abs(x) \div Abs(y)))

Converted(dev) == tensor.by = "to_tensor" /\ tensor.dev = dev

LastId == Len(nodes) - 1

\* C5: to_tensor on a handle returns the value computed for the node that
\* handle's own id identifies, for any handle of the graph and not only for
\* the most recently created one.
C5_HandleConverted ==
    (Converted("Cpu") /\ tensor.status = "done") =>
        tensor.output = NodeValue(nodes, tensor.handle)

\* C6: a CPU run over a non-empty acyclic node list returns the buffer
\* computed for the last-appended node (index len-1); that buffer is taken
\* out of the results table and is not among the buffers released to the pool.
C6_LastNodeReturned ==
    (tensor.by = "cpu" /\ tensor.status = "done") =>
        /\ tensor.output = NodeValue(nodes, LastId)
        /\ tensor.results[LastId + 1] = NoBuf
        /\ LastId \notin tensor.released

\* a finished run over a list whose last-scheduled node is not its
\* last-appended node, with other buffers left to release
C6_Witness ==
    /\ tensor.by = "cpu"
    /\ tensor.status = "done"
    /\ Len(nodes) >= 2
    /\ cpu_order(nodes).order[Len(nodes)] # LastId
    /\ tensor.released # {}
    /\ tensor.output # NodeValue(nodes, cpu_order(nodes).order[Len(nodes)])

\* C7: for a graph G and the rewrite G' that replaces a BinaryOp or
\* FusedMulAdd by its in-place variant whose out is an operand no node
\* scheduled later reads, the CPU run of G' returns element-wise what the
\* CPU run of G returns.
C7_InplaceSameResult ==
    (rewrite.kind = "inplace" /\ Converted("Cpu")) =>
        LET g == compile_and_run_graph(base)
        IN g.status = "done" => (tensor.status = "done" /\ tensor.output = g.output)

\* the expression the CUDA backend renders for node j of graph, evaluated
\* for every index of the node's shape
Rendered(graph, j) ==
    LET r == handle_node(0, <<>>, graph[j + 1].op, graph)
    IN [k \in 1..elem_count(graph[j + 1].shape) |-> CEval(r.header, r.body, k - 1)]

\* C8: FusedMulAdd{a, b, c} yields a[i]*b[i] + c[i]: the graph in which
\* Mul(a, b) followed by Add(product, c) is replaced by FusedMulAdd{a, b, c}
\* returns what the unfused graph returns in the CPU interpreter (the result
\* and every buffer of the table), and the expression the CUDA backend
\* renders for the fused node has the value of the one rendered for the Add.
C8_FusedMulAdd ==
    (rewrite.kind = "fma" /\ Converted("Cpu")) =>
        LET g == compile_and_run_graph(base)
        IN g.status = "done" =>
             /\ tensor.status = "done"
             /\ tensor.output = g.output
             /\ tensor.results = g.results
             /\ Rendered(nodes, rewrite.at) = Rendered(base, rewrite.at)
             /\ Rendered(nodes, rewrite.at) = NodeValue(nodes, rewrite.at)

\* a fused graph was converted, and the addend of the fused node is not zero
C8_Witness ==
    /\ rewrite.kind = "fma"
    /\ Converted("Cpu")
    /\ tensor.status = "done"
    /\ nodes[rewrite.at + 1].op.kind = "FusedMulAdd"
    /\ NodeValue(nodes, nodes[rewrite.at + 1].op.c_id)[1] # 0
    /\ NodeValue(nodes, nodes[rewrite.at + 1].op.a_id)[1] # 1

FillExpression(graph) ==
    \A i \in Ids(graph) : graph[i + 1].op.kind \in {"Fill", "UnaryOp", "BinaryOp"}

\* C9: for a graph of Fill nodes of one shape combined by BinaryOp (add, sub,
\* mul, truncating division) and unary negation, the CPU result of the last
\* handle has exactly the shape's element count, and every element equals
\* the scalar expression evaluated over the fill constants.
C9_ScalarExpression ==
    (/\ Converted("Cpu")
     /\ tensor.status = "done"
     /\ tensor.handle = LastId
     /\ rewrite.kind = "none"
     /\ FillExpression(nodes)) =>
        /\ Len(tensor.output) = elem_count(FrontShape)
        /\ \A k \in 1..Len(tensor.output) : tensor.output[k] = ScalarExpr(nodes, LastId)

\* the converted node divides a negative by a positive constant expression
\* (or the reverse) and the quotient is not exact
C9_Witness ==
    /\ Converted("Cpu")
    /\ tensor.status = "done"
    /\ tensor.handle = LastId
    /\ FillExpression(nodes)
    /\ nodes[LastId + 1].op.kind = "BinaryOp"
    /\ nodes[LastId + 1].op.operator = "Div"
    /\ LET x == ScalarExpr(nodes, nodes[LastId + 1].op.l_id)
           y == ScalarExpr(nodes, nodes[LastId + 1].op.r_id)
       IN (x < 0) # (y < 0) /\ Abs(x) % Abs(y) # 0

\* C10: for a graph of Fill, Arange, negation and BinaryOp nodes of one
\* shape the value the CUDA kernel assigns to buf[i] equals element i of
\* the CPU interpreter's result, for every i below the element count.
C10_BackendsAgree ==
    (Converted("Cuda") /\ tensor.status = "done") =>
        LET cpu == compile_and_run_graph(nodes)
        IN cpu.status = "done" =>
             \A k \in 1..elem_count(FrontShape) :
                 k <= Len(cpu.output) /\ tensor.output[k] = cpu.output[k]

\* C11: arange(start, stop) over the declared length A, run on the CPU,
\* yields exactly A elements, element i being start + i*step with
\* step = (stop - start)/A converted to the element type.
C11_ArangeElements ==
    (/\ Converted("Cpu")
     /\ tensor.status = "done"
     /\ tensor.handle = LastId
     /\ nodes[LastId + 1].op.kind = "Arange") =>
        LET op == nodes[LastId + 1].op IN
        /\ Len(tensor.output) = NumElems
        /\ \A k \in 1..Len(tensor.output) : tensor.output[k] = op.start + (k - 1) * op.step

\* ------------------------------------------------------------- launch_gemm
\* An element is an integer; the floating types (f32, f64, f16, bf16) have in
\* addition the value NaN, which every product and sum with it yields again.
NaN == DivZero - 1
fmul(x, y) == IF x = NaN \/ y = NaN THEN NaN ELSE x * y
fadd(x, y) == IF x = NaN \/ y = NaN THEN NaN ELSE x + y

\* the element at 0-based offset e of a slice
At(buf, e) == buf[e + 1]

\* A call is the record g of its arguments: variant, elem, the dimensions b, m,
\* n, k, the lane count bs (BLOCK_SIZE), lhs, rhs, alpha, beta.
RECURSIVE naive_sum(_, _, _, _, _, _)
\* `for p in 0..k { sum += beta * lhs[..] * rhs[..] }`
naive_sum(g, bb, i, j, p, sum) ==
    IF p = g.k THEN sum
    ELSE naive_sum(g, bb, i, j, p + 1,
             fadd(sum, fmul(fmul(g.beta, At(g.lhs, bb * g.m * g.k + i * g.k + p)),
                            At(g.rhs, bb * g.k * g.n + p * g.n + j))))

\* NAIVE: out[..] = alpha * out[..] + sum
naive_elem(g, out, bb, i, j) ==
    fadd(fmul(g.alpha, At(out, bb * g.m * g.n + i * g.n + j)), naive_sum(g, bb, i, j, 0, 0))

RECURSIVE gemm_dot(_, _, _, _, _, _)
\* the contraction the gemm crate computes for one dst element
gemm_dot(g, bb, i, j, p, acc) ==
    IF p = g.k THEN acc
    ELSE gemm_dot(g, bb, i, j, p + 1,
             fadd(acc, fmul(At(g.lhs, bb * g.m * g.k + i * g.k + p),
                            At(g.rhs, bb * g.k * g.n + p * g.n + j))))

\* GEMM: read_dst = (alpha != zero); gemm::gemm writes alpha*dst + beta*lhs*rhs
\* when read_dst and beta*lhs*rhs otherwise
gemm_elem(g, out, bb, i, j) ==
    LET read_dst == g.alpha # 0
        prod == fmul(g.beta, gemm_dot(g, bb, i, j, 0, 0))
    IN IF read_dst THEN fadd(fmul(g.alpha, At(out, bb * g.m * g.n + i * g.n + j)), prod)
       ELSE prod

\* SIMD, a full block: the chunk is scaled by alpha when beta != init and
\* zeroed otherwise
simd_block_init(g, o) == IF g.beta # 0 THEN fmul(o, g.alpha) ELSE 0

RECURSIVE simd_block_acc(_, _, _, _, _, _)
\* `for p in 0..k { fma_op_inplace_c(&a_arr, b_chunk, out_chunk) }`
simd_block_acc(g, bb, i, j, p, acc) ==
    IF p = g.k THEN acc
    ELSE simd_block_acc(g, bb, i, j, p + 1,
             fadd(fmul(At(g.lhs, bb * g.m * g.k + i * g.k + p),
                       At(g.rhs, bb * g.k * g.n + p * g.n + j)), acc))

\* a remainder path that leaves the prior element unscaled
simd_rem_init_Unscaled(g, o) == IF g.beta # 0 THEN o ELSE 0

\* SIMD, the remainder columns: `*x *= alpha` or `*x = init`
simd_rem_init(g, o) == IF g.beta # 0 THEN fmul(o, g.alpha) ELSE 0

RECURSIVE simd_rem_acc(_, _, _, _, _, _)
\* `for p in 0..k { for j in 0..rem { out_chunk[j] += a_val * rhs_p[..] } }`
simd_rem_acc(g, bb, i, j, p, acc) ==
    IF p = g.k THEN acc
    ELSE simd_rem_acc(g, bb, i, j, p + 1,
             fadd(acc, fmul(At(g.lhs, bb * g.m * g.k + i * g.k + p),
                            At(g.rhs, bb * g.k * g.n + p * g.n + j))))

\* SIMD: columns below n_blocks * BLOCK_SIZE go through the block path, the
\* other rem columns through the remainder path
simd_elem(g, out, bb, i, j) ==
    LET n_blocks == g.n \div g.bs
        o == At(out, bb * g.m * g.n + i * g.n + j)
    IN IF j < n_blocks * g.bs
       THEN simd_block_acc(g, bb, i, j, 0, simd_block_init(g, o))
       ELSE simd_rem_acc(g, bb, i, j, 0, simd_rem_init(g, o))

\* GemmDispatch::launch_gemm of the call g on the buffer out (b*m*n elements)
launch_gemm(g, out) ==
    [x \in 1..(g.b * g.m * g.n) |->
        LET bb == (x - 1) \div (g.m * g.n)
            i == ((x - 1) % (g.m * g.n)) \div g.n
            j == (x - 1) % g.n
        IN CASE g.variant = "NAIVE" -> naive_elem(g, out, bb, i, j)
             [] g.variant = "GEMM" -> gemm_elem(g, out, bb, i, j)
             [] g.variant = "SIMD" -> simd_elem(g, out, bb, i, j)]

MaxDim == 2
BlockSizes == {1, 2}
Scalars == {0, 1, 2}

\* the instantiations: SIMD for u8, u32, i32, i64 and bf16, GEMM for f32, f64
\* and f16; the NAIVE arm is written for any type
Instances ==
    {<<"SIMD", "int">>, <<"SIMD", "float">>, <<"GEMM", "float">>, <<"NAIVE", "int">>}

\* buffer contents of a given length
Pattern(kind, len) ==
    [x \in 1..len |-> CASE kind = "zeros" -> 0
                        [] kind = "ones" -> 1
                        [] kind = "ramp" -> x
                        [] kind = "nan" -> NaN]

PriorKinds(elem) == IF elem = "float" THEN {"zeros", "ramp", "nan"} ELSE {"zeros", "ramp"}

GemmInit ==
    /\ nodes = <<>>
    /\ sched = NoSched
    /\ id = 0
    /\ tensor = NoTensor
    /\ base = <<>>
    /\ rewrite = NoRewrite
    /\ cuda = NoCuda
    /\ threads = NoThreads
    /\ \E inst \in Instances : \E b \in 1..MaxDim : \E m \in 1..MaxDim :
       \E n \in 1..(MaxDim + 1) : \E k \in 1..MaxDim : \E bs \in BlockSizes :
       \E alpha \in Scalars : \E beta \in Scalars :
       \E lk \in {"ones", "ramp"} : \E rk \in {"ones", "ramp"} :
       \E ok \in PriorKinds(inst[2]) :
          gemm = [variant |-> inst[1], elem |-> inst[2], b |-> b, m |-> m, n |-> n,
                  k |-> k, bs |-> bs, alpha |-> alpha, beta |-> beta,
                  lhs |-> Pattern(lk, b * m * k), rhs |-> Pattern(rk, b * k * n),
                  prior |-> Pattern(ok, b * m * n), out |-> Pattern(ok, b * m * n),
                  done |-> FALSE]

\* one call of T::launch_gemm(lhs, rhs, b, m, n, k, &mut out, alpha, beta)
LaunchGemm ==
    /\ gemm.variant # "none"
    /\ ~gemm.done
    /\ gemm' = [gemm EXCEPT !.out = launch_gemm(gemm, gemm.out), !.done = TRUE]
    /\ UNCHANGED <<nodes, sched, id, tensor, base, rewrite, cuda, threads>>

SpecGemm == GemmInit /\ [][LaunchGemm]_vars

RECURSIVE RefDot(_, _, _, _, _)
\* sum over p < k of L[b,i,p] * R[b,p,j]
RefDot(g, bb, i, j, p) ==
    IF p = 0 THEN 0
    ELSE RefDot(g, bb, i, j, p - 1)
         + At(g.lhs, bb * g.m * g.k + i * g.k + (p - 1))
           * At(g.rhs, bb * g.k * g.n + (p - 1) * g.n + j)

\* C12: for the integer element types launch_gemm leaves
\* out[b,i,j] = alpha*O[b,i,j] + beta*(sum over p of L[b,i,p]*R[b,p,j]) for
\* every b, i, j and all alpha and beta, O being out before the call.
C12_GemmFormula ==
    (gemm.variant # "none" /\ gemm.done /\ gemm.elem = "int") =>
        \A bb \in 0..(gemm.b - 1) : \A i \in 0..(gemm.m - 1) : \A j \in 0..(gemm.n - 1) :
            At(gemm.out, bb * gemm.m * gemm.n + i * gemm.n + j) =
                gemm.alpha * At(gemm.prior, bb * gemm.m * gemm.n + i * gemm.n + j)
                + gemm.beta * RefDot(gemm, bb, i, j, gemm.k)

\* C13: with alpha = 0 the accumulator is not read: for every dispatch
\* variant and every beta the result is the same for any prior content of out.
C13_AccumulatorNotRead ==
    (gemm.variant # "none" /\ gemm.done /\ gemm.alpha = 0) =>
        \A kind \in PriorKinds(gemm.elem) :
            launch_gemm(gemm, Pattern(kind, gemm.b * gemm.m * gemm.n)) = gemm.out

\* ------------------------------------------------ CUDA compile: the groups
\* Node lists for CudaDevice::compile: operands are any ids of the list, a
\* node with two operands is a BinaryOp or (in a matmul list) a MatMul, and
\* the output shapes are all ShapeA, ShapeA but for the last node, or alternate.
ShapeA == <<2, 2>>
ShapeB == <<2, 1>>

ShapeAt(cut, i) ==
    IF cut = 0 THEN (IF i % 2 = 0 THEN ShapeA ELSE ShapeB)
    ELSE IF i < cut THEN ShapeA ELSE ShapeB

CudaOp(mm, S) ==
    LET o == SetToSeq(S)
    IN CASE Len(o) = 0 -> Fill(1)
         [] Len(o) = 1 -> UnaryOp(o[1], "Neg")
         [] OTHER -> IF mm THEN MatMul(o[1], o[2], None) ELSE BinaryOp(o[1], o[2], "Add")

PairSets(n) == {S \in SUBSET (0..(n - 1)) : Cardinality(S) <= 2}

SplitInit ==
    /\ \E n \in 1..MaxNodes : \E mm \in BOOLEAN : \E cut \in {0, n - 1, n} :
       \E f \in [1..n -> PairSets(n)] :
           nodes = [i \in 1..n |-> GraphNode(CudaOp(mm, f[i]), ShapeAt(cut, i - 1))]
    /\ sched = NoSched
    /\ id = Len(nodes)
    /\ tensor = NoTensor
    /\ base = <<>>
    /\ rewrite = NoRewrite
    /\ gemm = NoGemm
    /\ cuda = NoCuda
    /\ threads = NoThreads

\* CudaDevice::compile followed by CudaDevice::run_graph, every kernel
\* compiling, loading and launching
CudaCompileRun ==
    /\ cuda.phase = "none"
    /\ \E c \in {compile(nodes)} :
       cuda' = [phase |-> "ran", ok |-> c.ok, why |-> c.why, order |-> c.order,
                splits |-> c.splits,
                rendered |-> [g \in 1..Len(c.splits) |-> Rendered_node(c.splits[g])],
                keys |-> [g \in 1..Len(c.kernels) |-> c.kernels[g].order],
                kernels |-> c.kernels,
                returned |-> IF c.ok THEN returned_kernel(c.kernels) ELSE 0,
                output |-> IF c.ok THEN run_graph(c) ELSE <<>>]
    /\ UNCHANGED <<nodes, sched, id, tensor, base, rewrite, gemm, threads>>

SpecSplit == SplitInit /\ [][CudaCompileRun]_vars

RECURSIVE Concat(_)
Concat(ss) == IF ss = <<>> THEN <<>> ELSE Head(ss) \o Concat(Tail(ss))

Grouped == cuda.phase = "ran" /\ cuda.why # "panic: Cycle detected in graph!"

\* C14: compile splits the schedule into consecutive groups: concatenating
\* the groups reproduces the schedule, all nodes of a group have the same
\* output shape, and two adjacent groups have different output shapes.
C14_MaximalRuns ==
    Grouped =>
        /\ Concat(cuda.splits) = cuda.order
        /\ \A g \in 1..Len(cuda.splits) :
              /\ cuda.splits[g] # <<>>
              /\ \A x \in Range(cuda.splits[g]) : \A y \in Range(cuda.splits[g]) :
                    nodes[x + 1].shape = nodes[y + 1].shape
        /\ \A g \in 1..(Len(cuda.splits) - 1) :
              nodes[cuda.splits[g][1] + 1].shape # nodes[cuda.splits[g + 1][1] + 1].shape

\* a schedule split into three groups or into two with a group of two nodes
C14_Witness ==
    /\ Grouped
    /\ Len(cuda.splits) >= 2
    /\ \E g \in 1..Len(cuda.splits) : Len(cuda.splits[g]) >= 2
    /\ cuda.order # NodeIds(nodes)

\* C15: a MatMul node always begins a new group, whatever the output shapes
\* of its neighbours in the schedule.
C15_MatMulOwnGroup ==
    Grouped =>
        \A g \in 1..Len(cuda.splits) : \A p \in 1..Len(cuda.splits[g]) :
            nodes[cuda.splits[g][p] + 1].op.kind = "MatMul" => p = 1

\* every operand id is smaller than the index of the node that names it
Monotone(graph) ==
    \A i \in Ids(graph) : \A o \in Range(Operands(graph[i + 1].op)) : o < i

ReturnsLastGroup ==
    /\ cuda.returned = Len(cuda.splits)
    /\ \A g \in 1..Len(cuda.splits) : cuda.rendered[g] = cuda.keys[g]
    /\ cuda.rendered[cuda.returned] = cuda.order[Len(cuda.order)]
    /\ cuda.output = Rendered(nodes, cuda.order[Len(cuda.order)])

MonotoneReturnsLastGroup ==
    (cuda.phase = "ran" /\ cuda.ok /\ Monotone(nodes)) => ReturnsLastGroup

\* ------------------------------------------------ CUDA JIT: kernel cache
\* The PTX cache directory is a function from kernel names to file contents.
\* A content is the PTX of a kernel ("ptx"), text that is not ("corrupt"),
\* or bytes read_to_string rejects ("unreadable"); "absent" is no file.
MaxCompiles == 2

Ptx(kind, name) == [kind |-> kind, of |-> name]

\* the kernel identifier: a hash of body and header (taken as injective)
function_name(header, body) == <<body, header>>

read_to_string(files, name) ==
    IF name \in DOMAIN files THEN files[name] ELSE Ptx("absent", name)

write(files, name, ptx) ==
    [f \in DOMAIN files \cup {name} |-> IF f = name THEN ptx ELSE files[f]]

remove(files, name) == [f \in DOMAIN files \ {name} |-> files[f]]

Faults == {"nvrtc", "write", "alloc", "load"}

\* one compile_kernel call: the file found, whether the runtime compiler
\* ran, the PTX obtained, the PTX written, the result, and the files left
\* (in the calls a compile records: the content of the kernel's file left)
Call(name, fault, cached, invoked, ptx, written, result, files) ==
    [name |-> name, fault |-> fault, before |-> cached, prior |-> Ptx("absent", name),
     nvrtc |-> invoked, loaded |-> ptx, written |-> written, result |-> result,
     files |-> files]

\* a compile_kernel that never consults the cache
compile_kernel_NoCache(name, files, fault) ==
    LET cached == read_to_string(files, name)
        none == Ptx("absent", name)
        ptx == Ptx("ptx", name)
    IN IF fault = "nvrtc"
       THEN Call(name, fault, cached, TRUE, none, none, "Err(nvrtc)", files)
       ELSE IF fault = "write"
       THEN Call(name, fault, cached, TRUE, ptx, none, "Err(io)", files)
       ELSE IF fault = "alloc"
       THEN Call(name, fault, cached, TRUE, ptx, ptx, "Err(alloc)", write(files, name, ptx))
       ELSE IF fault = "load"
       THEN Call(name, fault, cached, TRUE, ptx, ptx, "Err(load)", write(files, name, ptx))
       ELSE Call(name, fault, cached, TRUE, ptx, ptx, "Ok", write(files, name, ptx))

\* CudaDevice::compile_kernel with a home directory: the PTX is read from the
\* cache file or compiled, written to the cache file, the buffer allocated
\* and the function loaded; fault names the step the environment fails
compile_kernel(name, files, fault) ==
    LET cached == read_to_string(files, name)
        none == Ptx("absent", name)
        hit == cached.kind \in {"ptx", "corrupt"}
        ptx == IF hit THEN cached ELSE Ptx("ptx", name)
    IN IF ~hit /\ fault = "nvrtc"
       THEN Call(name, fault, cached, TRUE, none, none, "Err(nvrtc)", files)
       ELSE IF fault = "write"
       THEN Call(name, fault, cached, ~hit, ptx, none, "Err(io)", files)
       ELSE IF fault = "alloc"
       THEN Call(name, fault, cached, ~hit, ptx, ptx, "Err(alloc)", write(files, name, ptx))
       ELSE IF fault = "load" \/ ptx # Ptx("ptx", name)
       THEN Call(name, fault, cached, ~hit, ptx, ptx, "Err(load)", write(files, name, ptx))
       ELSE Call(name, fault, cached, ~hit, ptx, ptx, "Ok", write(files, name, ptx))

\* the loop of compile over the groups: the first failing compile_kernel ends
\* it. wrote holds, per kernel name, the PTX the last successful
\* compile_kernel wrote, as long as nothing else touched the file.
RECURSIVE compile_kernels(_, _, _, _, _, _)
compile_kernels(names, g, files, wrote, fault, calls) ==
    IF g > Len(names) THEN [ok |-> TRUE, files |-> files, wrote |-> wrote, calls |-> calls]
    ELSE LET c == compile_kernel(names[g], files, IF fault[1] = g THEN fault[2] ELSE "none")
             e == [c EXCEPT !.prior = read_to_string(wrote, names[g]),
                            !.files = read_to_string(c.files, names[g])]
         IN IF c.result # "Ok"
            THEN [ok |-> FALSE, files |-> c.files, wrote |-> wrote, calls |-> Append(calls, e)]
            ELSE compile_kernels(names, g + 1, c.files, write(wrote, names[g], c.written),
                                 fault, Append(calls, e))

\* what compile hands back having built n kernels of ks, all or not
CompiledGraph_Partial(ks, n) == [g \in 1..n |-> [shape |-> ks[g].shape, order |-> ks[g].order]]

CompiledGraph(ks, n) ==
    IF n < Len(ks) THEN <<>>
    ELSE [g \in 1..n |-> [shape |-> ks[g].shape, order |-> ks[g].order]]

\* a run that goes on launching after a failed launch
launches_All(kernels, failing) == [i \in 1..Len(kernels) |-> i]

\* the kernels run_graph launches when the launch of kernel `failing` fails
\* (0: none does), in the order of the loop
launches(kernels, failing) ==
    [i \in 1..(IF failing = 0 THEN Len(kernels) ELSE failing) |-> i]

NoJit ==
    [phase |-> "idle", files |-> <<>>, wrote |-> <<>>, calls |-> <<>>, compiles |-> 0,
     tampered |-> FALSE, kernels |-> <<>>, failing |-> 0, launched |-> <<>>, storage |-> 0]

\* lists of Fill nodes, all of one shape (one group) or of alternating shapes
\* (every node a group), all of one value (one kernel name) or alternating
JitInit ==
    /\ \E n \in 1..MaxNodes : \E uniform \in BOOLEAN : \E same \in BOOLEAN :
           nodes = [i \in 1..n |->
                       GraphNode(Fill(IF same THEN 1 ELSE 1 + (i % 2)),
                                 ShapeAt(IF uniform THEN n ELSE 0, i - 1))]
    /\ sched = NoSched
    /\ id = Len(nodes)
    /\ tensor = NoTensor
    /\ base = <<>>
    /\ rewrite = NoRewrite
    /\ gemm = NoGemm
    /\ cuda = NoJit
    /\ threads = NoThreads

JitNames(ks) == [g \in 1..Len(ks) |-> function_name(ks[g].header, ks[g].body)]

\* CudaDevice::compile: one compile_kernel per group
JitCompile ==
    /\ cuda.phase # "none"
    /\ cuda.compiles < MaxCompiles
    /\ \E ks \in {compile(nodes).kernels} :
       \E fault \in {<<0, "none">>} \cup ((1..Len(ks)) \X Faults) :
       \E r \in {compile_kernels(JitNames(ks), 1, cuda.files, cuda.wrote, fault, <<>>)} :
           cuda' = [cuda EXCEPT !.phase = IF r.ok THEN "compiled" ELSE "failed",
                                !.files = r.files,
                                !.wrote = r.wrote,
                                !.calls = r.calls,
                                !.compiles = cuda.compiles + 1,
                                !.tampered = FALSE,
                                !.kernels = CompiledGraph(ks, IF r.ok THEN Len(ks)
                                                              ELSE Len(r.calls) - 1),
                                !.failing = 0,
                                !.launched = <<>>,
                                !.storage = 0]
    /\ UNCHANGED <<nodes, sched, id, tensor, base, rewrite, gemm, threads>>

\* CudaDevice::run_graph on the CompiledGraph the last compile returned
JitRun ==
    /\ cuda.phase = "compiled"
    /\ \E failing \in 0..Len(cuda.kernels) :
           cuda' = [cuda EXCEPT !.phase = IF failing = 0 THEN "ran" ELSE "run failed",
                                !.failing = failing,
                                !.launched = launches(cuda.kernels, failing),
                                !.storage = IF failing = 0
                                            THEN returned_kernel(cuda.kernels) ELSE 0]
    /\ UNCHANGED <<nodes, sched, id, tensor, base, rewrite, gemm, threads>>

\* between two compiles something else deletes, garbles or replaces a cache file
Tamper ==
    /\ cuda.phase # "none"
    /\ cuda.compiles < MaxCompiles
    /\ ~cuda.tampered
    /\ \E name \in Range(JitNames(compile(nodes).kernels)) :
       \E kind \in {"absent", "corrupt", "unreadable"} :
           /\ read_to_string(cuda.files, name).kind # kind
           /\ cuda' = [cuda EXCEPT !.files = IF kind = "absent" THEN remove(cuda.files, name)
                                             ELSE write(cuda.files, name, Ptx(kind, name)),
                                   !.wrote = remove(cuda.wrote, name),
                                   !.tampered = TRUE]
    /\ UNCHANGED <<nodes, sched, id, tensor, base, rewrite, gemm, threads>>

JitNext == JitCompile \/ JitRun \/ Tamper

SpecJit == JitInit /\ [][JitNext]_vars

Jit == cuda.phase \in {"idle", "compiled", "failed", "ran", "run failed"}

\* C17: run launches the kernels one at a time in the order of the kernel
\* list; if a launch fails, run returns the error at once, launches no later
\* kernel and returns no storage.
C17_LaunchInOrder ==
    Jit =>
        /\ \A i \in 1..Len(cuda.launched) : cuda.launched[i] = i
        /\ Len(cuda.launched) <= Len(cuda.kernels)
        /\ \A i \in 1..(Len(cuda.kernels) - 1) :
              cuda.kernels[i].order < cuda.kernels[i + 1].order
        /\ cuda.phase = "ran" =>
              /\ Len(cuda.launched) = Len(cuda.kernels)
              /\ cuda.storage = Len(cuda.kernels)
        /\ cuda.phase = "run failed" =>
              /\ cuda.storage = 0
              /\ Len(cuda.launched) = cuda.failing

\* a run of three kernels whose second launch failed
C17_Witness ==
    /\ cuda.phase = "run failed"
    /\ Len(cuda.kernels) >= 3
    /\ Len(cuda.launched) = 2

\* C18: when the cache file of the kernel is absent the source is compiled
\* and the PTX written to the file; when it is present and readable its
\* content is loaded and the compiler is not invoked; a compile of the same
\* kernel after a successful one loads exactly the PTX that one wrote.
C18_CacheProtocol ==
    Jit => \A i \in 1..Len(cuda.calls) :
        LET c == cuda.calls[i] IN
        /\ (c.before.kind = "absent" /\ c.fault \notin {"nvrtc", "write"}) =>
              c.nvrtc /\ c.written = Ptx("ptx", c.name) /\ c.files = c.written
        /\ c.before.kind \in {"ptx", "corrupt"} => ~c.nvrtc /\ c.loaded = c.before
        /\ c.prior.kind # "absent" => ~c.nvrtc /\ c.loaded = c.prior

\* a warm compile: the second compile finds the file the first one wrote
C18_Witness ==
    /\ Jit
    /\ cuda.compiles = 2
    /\ cuda.phase = "compiled"
    /\ cuda.calls[1].prior.kind = "ptx"
    /\ ~cuda.calls[1].nvrtc

\* C19: if the cache file exists but is unreadable or its content is
\* corrupted, compile_kernel compiles the source afresh and succeeds (no
\* step of the environment failing); it neither returns an error nor loads
\* the corrupted content.
C19_CorruptFallsBack ==
    Jit => \A i \in 1..Len(cuda.calls) :
        LET c == cuda.calls[i] IN
        (c.before.kind \in {"corrupt", "unreadable"} /\ c.fault = "none") =>
            /\ c.nvrtc
            /\ c.loaded = Ptx("ptx", c.name)
            /\ c.result = "Ok"

\* C20: if compiling or loading the kernel of any group fails, compile
\* returns that error and no CompiledGraph: the kernels already built for
\* earlier groups are not returned.
C20_NoPartialGraph ==
    Jit =>
        /\ cuda.phase = "failed" <=>
              (cuda.calls # <<>> /\ cuda.calls[Len(cuda.calls)].result # "Ok")
        /\ cuda.phase = "failed" => cuda.kernels = <<>>

\* a compile that failed at its second or a later group
C20_Witness ==
    /\ Jit
    /\ cuda.phase = "failed"
    /\ Len(cuda.calls) >= 2
    /\ cuda.calls[1].result = "Ok"

\* ------------------------------------------------ the portable (WGPU) run
\* A run's state: status, the order compile stored, the nodes dispatched so
\* far, the keys of the handles table (a handle is the buffer of the node
\* it is keyed by) and the key of the handle returned.
WgpuStart ==
    [status |-> Running, order |-> <<>>, dispatched |-> <<>>, handles |-> {}, output |-> None]

MissingHandle == "panic: no handle for an operand"
Todo == "panic: not yet implemented"

\* a compile that stores the schedule back to front
wgpu_compile_Reversed(graph) ==
    LET order == topo_order(graph) IN [ok |-> order.ok, order |-> Reverse(order.order)]

\* WgpuDevice::compile: the schedule of the shared scheduler
wgpu_compile(graph) == topo_order(graph)

\* a catch-all arm that leaves the node out and goes on
WgpuOther_Skip(st, idx) == st

\* the arm `_ => todo!()`
WgpuOther(st, idx) == Fail(st, Todo)

\* the body of `for &idx in order.iter()`
WgpuNode(graph, st, idx) ==
    LET op == graph[idx + 1].op
        at == [st EXCEPT !.dispatched = Append(@, idx)]
    IN CASE op.kind = "Fill" -> [at EXCEPT !.handles = @ \cup {idx}]
         [] op.kind = "BinaryOp" ->
              IF {op.l_id, op.r_id} \subseteq st.handles
              THEN [at EXCEPT !.handles = @ \cup {idx}]
              ELSE Fail(at, MissingHandle)
         [] OTHER -> WgpuOther(at, idx)

RECURSIVE WgpuLoop(_, _, _)
WgpuLoop(graph, st, order) ==
    IF order = <<>> \/ st.status # Running THEN st
    ELSE WgpuLoop(graph, WgpuNode(graph, st, Head(order)), Tail(order))

\* a result selection by the smallest key
wgpu_key_Min(handles) == CHOOSE k \in handles : \A h \in handles : h >= k

\* `*handles.keys().max().unwrap()`
wgpu_key(handles) == CHOOSE k \in handles : \A h \in handles : h <= k

\* WgpuDevice::compile then WgpuDevice::run_graph on a non-empty node list
wgpu_run_graph(graph) ==
    LET comp == wgpu_compile(graph) IN
    IF ~comp.ok THEN Fail(WgpuStart, "panic: Cycle detected in graph!")
    ELSE LET st == WgpuLoop(graph, [WgpuStart EXCEPT !.order = comp.order], comp.order)
         IN IF st.status # Running THEN st
            ELSE IF st.handles = {} THEN Fail(st, "panic: unwrap on None")
            ELSE [st EXCEPT !.status = "done", !.output = wgpu_key(st.handles)]

WgpuInit ==
    /\ \E n \in 1..MaxNodes : \E variant \in Variants : \E f \in [1..n -> PairSets(n)] :
           nodes = [i \in 1..n |-> GraphNode(OpOver(variant, f[i]), Shape1)]
    /\ sched = NoSched
    /\ id = Len(nodes)
    /\ tensor = NoTensor
    /\ base = <<>>
    /\ rewrite = NoRewrite
    /\ gemm = NoGemm
    /\ cuda = NoCuda
    /\ threads = NoThreads

WgpuRun ==
    /\ tensor.by = "none"
    /\ tensor' = [by |-> "wgpu", dev |-> "Wgpu"] @@ wgpu_run_graph(nodes)
    /\ UNCHANGED <<nodes, sched, id, base, rewrite, gemm, cuda, threads>>

\* node lists of any shape of references, run by the WGPU and the CPU device
SpecWgpu == WgpuInit /\ [][WgpuRun \/ CpuRun]_vars

WgpuKinds == {"Fill", "BinaryOp"}

Unsupported == {i \in Ids(nodes) : nodes[i + 1].op.kind \notin WgpuKinds}

\* positions 1..k of the stored order
Prefix(order, k) == SubSeq(order, 1, k)

\* C21: the WGPU run fails closed: when the graph contains a node other than
\* Fill or BinaryOp, the run aborts at the first such node of the schedule
\* and returns no result; it never skips the node and continues.
C21_FailsClosed ==
    (tensor.by = "wgpu" /\ Unsupported # {}) =>
        /\ tensor.status \in {Todo, "panic: Cycle detected in graph!"}
        /\ tensor.output = None
        /\ tensor.status = Todo =>
              LET k == Len(tensor.dispatched) IN
              /\ tensor.dispatched = Prefix(tensor.order, k)
              /\ tensor.dispatched[k] \in Unsupported
              /\ \A j \in 1..(k - 1) : tensor.dispatched[j] \notin Unsupported
              /\ tensor.handles = {tensor.dispatched[j] : j \in 1..(k - 1)}

\* a run that dispatched two supported nodes and stopped at a third,
\* unsupported one, with a node left over
C21_Witness ==
    /\ tensor.by = "wgpu"
    /\ tensor.status = Todo
    /\ Len(tensor.dispatched) = 2
    /\ Len(nodes) = 3

\* C22: the WGPU run returns the buffer of the node with the highest index
\* among the nodes it executed, which for a successfully executed graph is
\* the last-appended node.
C22_HighestIndexReturned ==
    (tensor.by = "wgpu" /\ tensor.status = "done") =>
        /\ tensor.handles = Range(tensor.dispatched)
        /\ \A h \in tensor.handles : h <= tensor.output
        /\ tensor.output \in tensor.handles
        /\ tensor.output = Len(nodes) - 1

\* a successful run of three nodes whose schedule does not end with the
\* last-appended node
C22_Witness ==
    /\ tensor.by = "wgpu"
    /\ tensor.status = "done"
    /\ Len(nodes) = 3
    /\ tensor.order[3] # 2

NoInplace(graph) ==
    \A i \in 1..Len(graph) : graph[i].op.kind \notin {"InplaceBinaryOp", "InplaceFusedMulAdd"}

\* d lists nodes so that every operand of a listed node is listed before it
OperandsDispatchedFirst(graph, d) ==
    \A k \in 1..Len(d) : \A o \in Range(Operands(graph[d[k] + 1].op)) :
        \E j \in 1..(k - 1) : d[j] = o

\* C30: in the CPU and WGPU runs over an acyclic graph without in-place
\* nodes, the nodes are dispatched one at a time in schedule order, every
\* operand of a dispatched node was dispatched (and given its buffer)
\* before it, so that no operand lookup fails, and only dispatched nodes
\* have an entry in the results/handles table.
C30_OperandsReady ==
    (Acyclic(nodes) /\ NoInplace(nodes)) =>
        /\ tensor.by = "wgpu" =>
              /\ tensor.status \in {"done", Todo}
              /\ tensor.order = topo_order(nodes).order
              /\ tensor.dispatched = Prefix(tensor.order, Len(tensor.dispatched))
              /\ OperandsDispatchedFirst(nodes, tensor.dispatched)
              /\ tensor.handles \subseteq Range(tensor.dispatched)
              /\ \A k \in 1..(Len(tensor.dispatched) - 1) :
                     tensor.dispatched[k] \in tensor.handles
        /\ tensor.by = "cpu" =>
              /\ tensor.status \notin {MissingOperand, "panic: Cycle detected in graph!"}
              /\ tensor.dispatched =
                     Prefix(cpu_order(nodes).order, Len(tensor.dispatched))
              /\ OperandsDispatchedFirst(nodes, tensor.dispatched)
              /\ {i \in Ids(nodes) : tensor.results[i + 1] # NoBuf}
                     \subseteq Range(tensor.dispatched)

\* a WGPU run to the end of three nodes, the first of them adding the two
\* that come after it in the list
C30_Witness ==
    /\ tensor.by = "wgpu"
    /\ tensor.status = "done"
    /\ Len(nodes) = 3
    /\ nodes[1].op.kind = "BinaryOp"
    /\ tensor.dispatched[3] = 0

\* ------------------------------------------- concurrent id allocation
\* Threads that hold clones of one Graph (the clones share the Arc of the
\* counter) and call next_id. Each statement of next_id takes the counter's
\* RwLock for itself: the read guard of the first statement is dropped
\* before the write guard of the second is taken.
NumThreads == 2
MaxCalls == 2

Tids == 1..NumThreads

IdsInit ==
    /\ nodes = <<>>
    /\ sched = NoSched
    /\ id = 0
    /\ tensor = NoTensor
    /\ base = <<>>
    /\ rewrite = NoRewrite
    /\ gemm = NoGemm
    /\ cuda = NoCuda
    /\ threads = [kind |-> "next_id",
                  t |-> [th \in Tids |-> [pc |-> "idle", next |-> None, ids |-> <<>>]]]

\* `let next = GraphTensorId(*self.id.read().unwrap());`
NextIdRead(th) ==
    /\ threads.kind = "next_id"
    /\ threads.t[th].pc = "idle"
    /\ Len(threads.t[th].ids) < MaxCalls
    /\ threads' = [threads EXCEPT !.t[th].pc = "read", !.t[th].next = next_id(id).id]
    /\ UNCHANGED <<nodes, sched, id, tensor, base, rewrite, gemm, cuda>>

\* `*self.id.write().unwrap() += 1; next`
NextIdWrite(th) ==
    /\ threads.kind = "next_id"
    /\ threads.t[th].pc = "read"
    /\ id' = next_id(id).counter
    /\ threads' = [threads EXCEPT !.t[th].pc = "idle", !.t[th].next = None,
                                  !.t[th].ids = Append(@, threads.t[th].next)]
    /\ UNCHANGED <<nodes, sched, tensor, base, rewrite, gemm, cuda>>

IdsNext == \E th \in Tids : NextIdRead(th) \/ NextIdWrite(th)

SpecIds == IdsInit /\ [][IdsNext]_vars

\* the ids returned so far, as (thread, call) -> id
Returned == {<<th, c>> : th \in Tids, c \in 1..MaxCalls} \cap
            {x \in Tids \X (1..MaxCalls) : x[2] <= Len(threads.t[x[1]].ids)}

\* C23: for any interleaving of next_id calls by threads holding clones of
\* one Graph, no two calls return the same id, and when no call is under way
\* the counter equals the number of calls (the ids are 0, 1, 2, ...).
C23_UniqueIds ==
    threads.kind = "next_id" =>
        /\ \A x \in Returned : \A y \in Returned :
              x # y => threads.t[x[1]].ids[x[2]] # threads.t[y[1]].ids[y[2]]
        /\ (\A th \in Tids : threads.t[th].pc = "idle") =>
              /\ id = Cardinality(Returned)
              /\ {threads.t[x[1]].ids[x[2]] : x \in Returned} = 0..(id - 1)

\* ------------------------------------- to_tensor against a concurrent append
\* One thread converts a handle (GraphTensor::to_tensor on the CPU device)
\* while another, holding a clone of the Graph, appends nodes (Graph::add_op).
\* lock is the RwLock of Graph.data: the number of read guards alive and
\* whether a write guard is.
Unlocked == [readers |-> 0, writer |-> FALSE]

\* a get_ops whose guard is dropped before to_tensor goes on
get_ops_Dropped(lock) == lock

\* Graph::get_ops: a read guard, alive until to_tensor returns
get_ops(lock) == [lock EXCEPT !.readers = @ + 1]

SnapInit ==
    /\ \E v \in FillVals : nodes = <<GraphNode(Fill(v), FrontShape)>>
    /\ sched = NoSched
    /\ id = 1
    /\ tensor = NoTensor
    /\ base = <<>>
    /\ rewrite = NoRewrite
    /\ gemm = NoGemm
    /\ cuda = NoCuda
    /\ threads = [kind |-> "to_tensor", lock |-> Unlocked,
                  conv |-> [pc |-> "idle", snapshot |-> <<>>],
                  app |-> [pc |-> "idle", op |-> NoOp]]

Snap == threads.kind = "to_tensor"

\* `let nodes = &*graph.get_ops();`: blocks while a write guard is alive
ToTensorGetOps ==
    /\ Snap
    /\ threads.conv.pc = "idle"
    /\ ~threads.lock.writer
    /\ threads' = [threads EXCEPT !.lock = get_ops(@), !.conv.pc = "reading"]
    /\ UNCHANGED <<nodes, sched, id, tensor, base, rewrite, gemm, cuda>>

\* compile_and_run_graph, first part: the dependency graph and its toposort
ToTensorSchedule ==
    /\ Snap
    /\ threads.conv.pc = "reading"
    /\ sched' = [by |-> "cpu"] @@ cpu_order(nodes)
    /\ threads' = [threads EXCEPT !.conv.pc = "scheduled", !.conv.snapshot = nodes]
    /\ UNCHANGED <<nodes, id, tensor, base, rewrite, gemm, cuda>>

\* compile_and_run_graph, second part: the nodes are evaluated in that order
\* and the last node's buffer extracted
ToTensorRun ==
    /\ Snap
    /\ threads.conv.pc = "scheduled"
    /\ tensor' = [by |-> "to_tensor", handle |-> 0, dev |-> "Cpu"] @@
                 Extract(nodes, EvalOrder(nodes, RunStart(nodes), sched.order))
    /\ threads' = [threads EXCEPT !.conv.pc = "ran"]
    /\ UNCHANGED <<nodes, sched, id, base, rewrite, gemm, cuda>>

\* to_tensor returns: the guards are dropped
ToTensorReturn ==
    /\ Snap
    /\ threads.conv.pc = "ran"
    /\ threads' = [threads EXCEPT !.conv.pc = "done",
                                  !.lock.readers = IF @ > 0 THEN @ - 1 ELSE 0]
    /\ UNCHANGED <<nodes, sched, id, tensor, base, rewrite, gemm, cuda>>

\* Graph::add_op, `self.data.write()`: blocks while any guard is alive
AddOpWrite(op) ==
    /\ Snap
    /\ threads.app.pc = "idle"
    /\ Len(nodes) < MaxNodes
    /\ threads.lock = Unlocked
    /\ threads' = [threads EXCEPT !.lock.writer = TRUE, !.app.pc = "writing", !.app.op = op]
    /\ UNCHANGED <<nodes, sched, id, tensor, base, rewrite, gemm, cuda>>

\* Graph::add_op, `.push(op)` under the write guard
AddOpPush ==
    /\ Snap
    /\ threads.app.pc = "writing"
    /\ nodes' = add_op(nodes, threads.app.op, FrontShape)
    /\ threads' = [threads EXCEPT !.app.pc = "pushed"]
    /\ UNCHANGED <<sched, id, tensor, base, rewrite, gemm, cuda>>

\* Graph::add_op returns: the write guard is dropped
AddOpReturn ==
    /\ Snap
    /\ threads.app.pc = "pushed"
    /\ threads' = [threads EXCEPT !.lock.writer = FALSE, !.app.pc = "idle", !.app.op = NoOp]
    /\ UNCHANGED <<nodes, sched, id, tensor, base, rewrite, gemm, cuda>>

SnapNext ==
    \/ ToTensorGetOps
    \/ ToTensorSchedule
    \/ ToTensorRun
    \/ ToTensorReturn
    \/ \E v \in FillVals : AddOpWrite(Fill(v))
    \/ \E l \in Ids(nodes) : AddOpWrite(BinaryOp(l, Len(nodes) - 1, "Sub"))
    \/ AddOpPush
    \/ AddOpReturn

SpecSnap == SnapInit /\ [][SnapNext]_vars

\* C24: while to_tensor compiles and runs it holds read access to the node
\* list: compilation does not begin while an append holds the write lock,
\* no append takes effect between the start of scheduling and the return of
\* the result, and the result is that of the list as it was when scheduling
\* began.
C24_Snapshot ==
    Snap =>
        /\ threads.conv.pc \in {"reading", "scheduled", "ran"} =>
              ~threads.lock.writer /\ threads.app.pc = "idle"
        /\ threads.conv.pc \in {"scheduled", "ran"} => nodes = threads.conv.snapshot
        /\ threads.conv.pc \in {"ran", "done"} =>
              /\ tensor.status = "done"
              /\ tensor.output = compile_and_run_graph(threads.conv.snapshot).output

\* a conversion that returned the list of two nodes, a third one appended
\* after it returned
C24_Witness ==
    /\ Snap
    /\ threads.conv.pc = "done"
    /\ Len(threads.conv.snapshot) = 2
    /\ Len(nodes) = 3

\* ------------------------------------------------------ the node list
\* C25: the node list is append-only: every front-end operation appends
\* exactly one node at the end and leaves the nodes appended before
\* unchanged, and a conversion (scheduling, compile, run) does not modify
\* the node list.
C25_AppendOnly ==
    [][IF tensor' # tensor
       THEN nodes' = nodes
       ELSE /\ Len(nodes') = Len(nodes) + 1
            /\ SubSeq(nodes', 1, Len(nodes)) = nodes]_vars

\* three nodes appended, then a conversion
C25_Witness ==
    /\ Len(nodes) = 3
    /\ tensor.by = "to_tensor"
    /\ nodes[3].op.kind = "BinaryOp"

\* C26: after any sequence of single-threaded front-end operations from
\* Graph::empty, every operand id stored in a node is strictly smaller than
\* the node's index; the handles' ids are the indices of the nodes their
\* operations appended and the id counter equals the number of nodes.
C26_OperandsEarlier ==
    /\ id = Len(nodes)
    /\ Handles = Ids(nodes)
    /\ Monotone(nodes)

\* a binary node over two different earlier nodes, one of them a unary node
C26_Witness ==
    /\ Len(nodes) = 3
    /\ nodes[2].op.kind = "UnaryOp"
    /\ nodes[3].op.kind = "BinaryOp"
    /\ nodes[3].op.l_id # nodes[3].op.r_id

\* ------------------------------------------------------- repeated runs
\* One graph is compiled once and run several times, on the CPU device
\* (each call of compile_and_run_graph builds its own pool and results
\* table) or on the CUDA device (the kernels of the CompiledGraph own the
\* device buffers they write; alloc leaves them uninitialised).
MaxRuns == 3

\* a kernel that adds its expression to what the buffer holds
launch_Add(k, slice) == [i \in 1..Len(slice) |-> slice[i] + run_kernel(k)[i]]

\* the launched kernel: `buf[i] = {body};` for every i < numel
launch(k, slice) == run_kernel(k)

\* the loop of run_graph over the kernels and their buffers
run_slices(kernels, slices) == [g \in 1..Len(kernels) |-> launch(kernels[g], slices[g])]

\* an op over earlier nodes: Fill, Neg, or the binary operator
RerunOp(v, operator, S) ==
    LET o == SetToSeq(S)
    IN CASE Len(o) = 0 -> Fill(v)
         [] Len(o) = 1 -> UnaryOp(o[1], "Neg")
         [] OTHER -> BinaryOp(o[1], o[2], operator)

RerunInit ==
    /\ \E n \in 1..MaxNodes : \E v \in FillVals : \E operator \in {"Add", "Mul"} :
       \E f \in [1..n -> PairSets(n)] :
           /\ \A i \in 1..n : \A o \in f[i] : o < i - 1
           /\ nodes = [i \in 1..n |-> GraphNode(RerunOp(v, operator, f[i]), FrontShape)]
    /\ sched = NoSched
    /\ id = Len(nodes)
    /\ tensor = NoTensor
    /\ base = <<>>
    /\ rewrite = NoRewrite
    /\ gemm = NoGemm
    /\ cuda = NoCuda
    /\ threads = NoThreads

\* CudaDevice::compile: the kernels, each with a buffer of its own
RerunCompile ==
    /\ cuda.phase = "none"
    /\ tensor.by = "none"
    /\ \E c \in {compile(nodes)} : \E junk \in {0, 7} :
           cuda' = [phase |-> "compiled", kernels |-> c.kernels,
                    slices |-> [g \in 1..Len(c.kernels) |->
                                   [i \in 1..elem_count(c.kernels[g].shape) |-> junk]]]
    /\ tensor' = [by |-> "rerun", dev |-> "Cuda", runs |-> <<>>]
    /\ UNCHANGED <<nodes, sched, id, base, rewrite, gemm, threads>>

\* CudaDevice::run_graph on the CompiledGraph
RerunCuda ==
    /\ cuda.phase = "compiled"
    /\ Len(tensor.runs) < MaxRuns
    /\ \E after \in {run_slices(cuda.kernels, cuda.slices)} :
           /\ cuda' = [cuda EXCEPT !.slices = after]
           /\ tensor' = [tensor EXCEPT !.runs = Append(@, after[returned_kernel(cuda.kernels)])]
    /\ UNCHANGED <<nodes, sched, id, base, rewrite, gemm, threads>>

\* CpuDevice::compile_and_run_graph on the node list, once more
RerunCpu ==
    /\ cuda.phase = "none"
    /\ tensor.by \in {"none", "rerun"}
    /\ tensor.by = "rerun" => Len(tensor.runs) < MaxRuns
    /\ \E r \in {compile_and_run_graph(nodes)} :
           tensor' = [by |-> "rerun", dev |-> "Cpu",
                      runs |-> IF tensor.by = "none" THEN <<r>> ELSE Append(tensor.runs, r)]
    /\ UNCHANGED <<nodes, sched, id, base, rewrite, gemm, cuda, threads>>

SpecRerun == RerunInit /\ [][RerunCompile \/ RerunCuda \/ RerunCpu]_vars

Workers == 1..NumThreads

\* the pairs of the zip: as many as the shorter side has
Pairs(out, buf) == 1..(IF Len(out) < Len(buf) THEN Len(out) ELSE Len(buf))

\* a closure that writes the element computed from the output element before
for_each_Chained(out, buf, i) ==
    [out EXCEPT ![i] = unary_elem("Neg", IF i = 1 THEN buf[1] ELSE out[i - 1])]

\* the closure on pair i: `*out = op_fn(*x)`
for_each(out, buf, i) == [out EXCEPT ![i] = unary_elem("Neg", buf[i])]

UnaryInit ==
    /\ nodes = <<>>
    /\ sched = NoSched
    /\ id = 0
    /\ tensor = NoTensor
    /\ base = <<>>
    /\ rewrite = NoRewrite
    /\ gemm = NoGemm
    /\ cuda = NoCuda
    /\ \E m \in 1..(NumElems + 1) : \E buf \in [1..m -> {-3, 0, 2}] :
           threads = [kind |-> "unary", buf |-> buf, out |-> get_buffer(NumElems),
                      done |-> [i \in 1..NumElems |-> 0]]

\* worker w runs the closure on a pair no worker has run it on
UnaryItem(w, i) ==
    /\ threads.kind = "unary"
    /\ i \in Pairs(threads.out, threads.buf)
    /\ threads.done[i] = 0
    /\ threads' = [threads EXCEPT !.out = for_each(threads.out, threads.buf, i),
                                  !.done[i] = w]
    /\ UNCHANGED <<nodes, sched, id, tensor, base, rewrite, gemm, cuda>>

SpecUnary == UnaryInit /\ [][\E w \in Workers : \E i \in 1..NumElems : UnaryItem(w, i)]_vars

\* C28: the unary kernel writes each output element once and computes it
\* from the input element of the same index only: whichever worker runs
\* which pair in which order, an element that was written holds the
\* operator applied to its input element, the others hold what the pool
\* buffer held.
C28_WorkerIndependent ==
    threads.kind = "unary" =>
        \A i \in 1..NumElems :
            threads.out[i] = IF threads.done[i] # 0
                             THEN unary_elem("Neg", threads.buf[i])
                             ELSE get_buffer(NumElems)[i]

\* every pair was run, by more than one worker, the last pair not by the
\* worker of the first
C28_Witness ==
    /\ threads.kind = "unary"
    /\ Len(threads.buf) >= NumElems
    /\ \A i \in 1..NumElems : threads.done[i] # 0
    /\ threads.done[1] # threads.done[NumElems]
    /\ threads.buf[1] # threads.buf[NumElems]

\* ------------------------------------------------------ error wrapping
\* A boxed value is a sequence of one element, so that every error record
\* has the same fields.  Error::Cuda(box) is [tag "Cuda", cause <<e>>],
\* Error::WithBacktrace { inner, backtrace } is [tag "WithBacktrace",
\* inner <<err>>, backtrace].
MaxWraps == 2
BacktraceStatus == {"Disabled", "Unsupported", "Captured"}
Libs == {"DriverError", "CompileError", "CublasError", "CurandError"}

\* the errors of cudarc, two of each library
LowErrors == [lib : Libs, code : {1, 2}]

\* enum CudaError: the #[from] variants hold the library's error
CudaError(variant, source, module_name) ==
    [variant |-> variant, source |-> source, module_name |-> module_name]

\* the values `w` is called on with E = CudaError
CudaErrors ==
    {CudaError("MissingKernel", <<>>, "fill"),
     CudaError("Load", <<[lib |-> "DriverError", code |-> 1]>>, "fill"),
     CudaError("PtxCompileError", <<[lib |-> "CompileError", code |-> 2]>>, "")}

\* a conversion that keeps the library and forgets which error it was
into_Generic(e) ==
    IF "variant" \in DOMAIN e THEN e
    ELSE CudaError("Cuda", <<[lib |-> e.lib, code |-> 0]>>, "")

\* `e.into()`, E: Into<CudaError>: a CudaError is itself, an error of a
\* library goes into the #[from] variant of its library
into(e) ==
    IF "variant" \in DOMAIN e THEN e
    ELSE CudaError(CASE e.lib = "DriverError" -> "Cuda"
                     [] e.lib = "CompileError" -> "Compiler"
                     [] e.lib = "CublasError" -> "Cublas"
                     [] e.lib = "CurandError" -> "Curand", <<e>>, "")

Error_Cuda(e) == [tag |-> "Cuda", cause |-> <<e>>, inner |-> <<>>, backtrace |-> ""]

WithBacktrace(inner, backtrace) ==
    [tag |-> "WithBacktrace", cause |-> <<>>, inner |-> <<inner>>, backtrace |-> backtrace]

\* a wrapping that keeps the backtrace and lets go of the error
bt_Dropped(self, status) ==
    IF status \in {"Disabled", "Unsupported"}
    THEN self
    ELSE [tag |-> "WithBacktrace", cause |-> <<>>, inner |-> <<>>, backtrace |-> status]

\* Error::bt, `status` being what Backtrace::capture().status() gives
bt(self, status) ==
    IF status \in {"Disabled", "Unsupported"}
    THEN self
    ELSE WithBacktrace(self, status)

Ok(v) == [ok |-> TRUE, val |-> v, err |-> <<>>]
Err(e) == [ok |-> FALSE, val |-> 0, err |-> <<e>>]

\* WrapErr::w: map_err(|e| Error::Cuda(Box::new(e.into())).bt())
w(result, status) ==
    IF result.ok THEN result ELSE Err(bt(Error_Cuda(into(result.err[1])), status))

\* the CudaError at the bottom of an Error, <<>> if there is none
RECURSIVE Cause(_)
Cause(err) ==
    IF err.tag = "Cuda" THEN err.cause
    ELSE IF err.inner = <<>> THEN <<>> ELSE Cause(err.inner[1])

RECURSIVE Wraps(_)
Wraps(err) == IF err.tag = "Cuda" \/ err.inner = <<>> THEN 0 ELSE 1 + Wraps(err.inner[1])

ErrInit ==
    /\ nodes = <<>>
    /\ sched = NoSched
    /\ id = 0
    /\ tensor = NoTensor
    /\ base = <<>>
    /\ rewrite = NoRewrite
    /\ gemm = NoGemm
    /\ threads = NoThreads
    /\ \E r \in {Ok(0), Ok(1)} \cup {Err(e) : e \in LowErrors}
                 \cup {Err(c) : c \in CudaErrors} :
           cuda = [phase |-> "result", last |-> "none", arg |-> r, ret |-> r,
                   status |-> "Disabled"]

\* `result.w()`
ErrW(status) ==
    /\ cuda.phase = "result"
    /\ cuda' = [phase |-> "error", last |-> "w", arg |-> cuda.arg,
                ret |-> w(cuda.arg, status), status |-> status]
    /\ UNCHANGED <<nodes, sched, id, tensor, base, rewrite, gemm, threads>>

\* `impl From<CudaError> for crate::Error`, what `?` applies to a CudaError
ErrFrom(status) ==
    /\ cuda.phase = "result"
    /\ ~cuda.arg.ok
    /\ cuda.arg.err[1] \in CudaErrors
    /\ cuda' = [phase |-> "error", last |-> "from", arg |-> cuda.arg,
                ret |-> Err(bt(Error_Cuda(cuda.arg.err[1]), status)), status |-> status]
    /\ UNCHANGED <<nodes, sched, id, tensor, base, rewrite, gemm, threads>>

\* `err.bt()` on an Error that was already made
ErrBt(status) ==
    /\ cuda.phase = "error"
    /\ ~cuda.ret.ok
    /\ Wraps(cuda.ret.err[1]) < MaxWraps
    /\ cuda' = [phase |-> "error", last |-> "bt", arg |-> cuda.ret,
                ret |-> Err(bt(cuda.ret.err[1], status)), status |-> status]
    /\ UNCHANGED <<nodes, sched, id, tensor, base, rewrite, gemm, threads>>

ErrNext == \E status \in BacktraceStatus : ErrW(status) \/ ErrFrom(status) \/ ErrBt(status)

SpecErr == ErrInit /\ [][ErrNext]_vars

\* what `w`, From and `bt` started from, as an Error
Wrapped ==
    CASE cuda.last = "bt" -> cuda.arg.err[1]
      [] cuda.last = "from" -> Error_Cuda(cuda.arg.err[1])
      [] cuda.last = "w" -> Error_Cuda(into(cuda.arg.err[1]))

\* the error `w` was called on is what the CudaError made from it holds
Holds(c, e) == IF "variant" \in DOMAIN e THEN c = e ELSE c.source = <<e>>

\* C29: error wrapping preserves the cause: `w`, From<CudaError> and `bt`
\* return the error they were given unchanged or a WithBacktrace whose
\* inner is that error, the CudaError at the bottom is or holds the error
\* that was passed in, and an Ok result passes through `w` as it is.
C29_CausePreserved ==
    cuda.phase = "error" =>
        IF cuda.arg.ok
        THEN cuda.ret = cuda.arg
        ELSE /\ ~cuda.ret.ok
             /\ \/ cuda.ret.err[1] = Wrapped
                \/ /\ cuda.ret.err[1].tag = "WithBacktrace"
                   /\ cuda.ret.err[1].inner = <<Wrapped>>
             /\ Cause(cuda.ret.err[1]) = Cause(Wrapped)
             /\ Cause(cuda.ret.err[1]) # <<>>
             /\ cuda.last = "w" => Holds(Cause(cuda.ret.err[1])[1], cuda.arg.err[1])

\* an error of the driver wrapped twice with a captured backtrace
C29_Witness ==
    /\ cuda.phase = "error"
    /\ cuda.last = "bt"
    /\ cuda.status = "Captured"
    /\ Wraps(cuda.ret.err[1]) = 2
    /\ Cause(cuda.ret.err[1])[1].source = <<[lib |-> "DriverError", code |-> 2]>>

\* ----------------------------------------------- the CPU run, node by node
\* compile_and_run_graph taken one iteration of `for idx in order` at a
\* time.  The run record gets three more fields: rest, the part of the
\* order not yet evaluated; last, the node of the last iteration; prev, the
\* results table as that iteration found it.

MaxSteps == 4

\* the MatMul of the CPU backend's enum: Op::MatMul { l_id, r_id, k }
CpuMatMul(l, r, k) == [kind |-> "MatMul", l_id |-> l, r_id |-> r, o_id |-> None, k |-> k]

\* the three nodes appended last before index i
Recent(i) == {x \in 0..(i - 1) : x >= i - 3}

\* the ops a node at index i may hold, over nodes appended shortly before it
StepOps(i) ==
    (IF i = 0 THEN {Fill(2), Arange(0, 1, 2)} ELSE {Fill(3)})
    \cup UNION {{UnaryOp(x, "Neg"), InplaceBinaryOp(x, x, x, "Add"),
                 InplaceFusedMulAdd(x, x, x, x)} : x \in Recent(i)}
    \cup UNION {{BinaryOp(x, y, "Add"), InplaceBinaryOp(x, x, y, "Add"),
                 InplaceBinaryOp(y, x, y, "Mul"), FusedMulAdd(x, y, y),
                 InplaceFusedMulAdd(x, y, x, y)} :
                <<x, y>> \in {q \in Recent(i) \X Recent(i) : q[1] < q[2]}}

MatMulShapes == {<<2, 2>>, <<1, 2>>, <<1, 2, 2>>}

\* two filled operands and their product
MatMulLists ==
    {<<GraphNode(Fill(2), sa), GraphNode(Fill(3), sb), GraphNode(CpuMatMul(0, 1, k), so)>> :
        sa \in MatMulShapes, sb \in MatMulShapes,
        <<k, so>> \in {1, 2} \X MatMulShapes}

StepInit ==
    /\ nodes \in {<<>>} \cup MatMulLists
    /\ sched = NoSched
    /\ id = Len(nodes)
    /\ tensor = NoTensor
    /\ base = <<>>
    /\ rewrite = NoRewrite
    /\ gemm = NoGemm
    /\ cuda = NoCuda
    /\ threads = NoThreads

\* an elementwise node is appended to the list, naming nodes before it
StepAppend(op) ==
    /\ tensor.by = "none"
    /\ Len(nodes) < MaxSteps
    /\ \A i \in 1..Len(nodes) : nodes[i].shape = Shape1
    /\ nodes' = add_op(nodes, op, Shape1)
    /\ id' = next_id(id).counter
    /\ UNCHANGED <<sched, tensor, base, rewrite, gemm, cuda, threads>>

\* the dependency graph, its toposort and the empty results table
StepSchedule ==
    /\ tensor.by = "none"
    /\ nodes # <<>>
    /\ \E order \in {cpu_order(nodes)} :
           tensor' = [by |-> "step", handle |-> None, dev |-> "Cpu",
                      rest |-> order.order, last |-> None,
                      prev |-> RunStart(nodes).results] @@
                     (IF order.ok THEN RunStart(nodes)
                      ELSE Fail(RunStart(nodes), "panic: Cycle detected in graph!"))
    /\ UNCHANGED <<nodes, sched, id, base, rewrite, gemm, cuda, threads>>

\* one iteration of `for idx in order`
StepEval ==
    /\ tensor.by = "step"
    /\ tensor.status = Running
    /\ tensor.rest # <<>>
    /\ LET idx == Head(tensor.rest) IN
       tensor' = EvalNode(nodes,
                          [tensor EXCEPT !.dispatched = Append(@, idx), !.rest = Tail(@),
                                         !.last = idx, !.prev = tensor.results],
                          idx)
    /\ UNCHANGED <<nodes, sched, id, base, rewrite, gemm, cuda, threads>>

\* after the loop: the final entry is taken out and the locals drop
StepExtract ==
    /\ tensor.by = "step"
    /\ tensor.status = Running
    /\ tensor.rest = <<>>
    /\ tensor' = [by |-> "step", handle |-> None, dev |-> "Cpu", rest |-> <<>>,
                  last |-> tensor.last, prev |-> tensor.prev] @@ Extract(nodes, tensor)
    /\ UNCHANGED <<nodes, sched, id, base, rewrite, gemm, cuda, threads>>

StepNext ==
    \/ \E op \in StepOps(Len(nodes)) : StepAppend(op)
    \/ StepSchedule
    \/ StepEval
    \/ StepExtract

SpecStep == StepInit /\ [][StepNext]_vars

\* an iteration of the loop was made and the run has not been extracted
Stepped == tensor.by = "step" /\ tensor.last # None /\ tensor.status # "done"

LastOp == nodes[tensor.last + 1].op

Inplace(op) == op.kind \in {"InplaceBinaryOp", "InplaceFusedMulAdd"}

\* what an in-place arm leaves in its own entry, from the table it found
InplaceValue(op, table) ==
    IF op.kind = "InplaceBinaryOp"
    THEN binary_simd_op(table[op.l_id + 1], table[op.r_id + 1],
                        Len(table[op.out + 1]), op.operator)
    ELSE fma_op(table[op.a_id + 1], table[op.b_id + 1], table[op.c_id + 1],
                Len(table[op.out + 1]))

\* the nodes evaluated before the last one
Earlier == {tensor.dispatched[j] : j \in 1..(Len(tensor.dispatched) - 1)}

\* the nodes whose iteration stored an entry
Evaluated == IF tensor.status = Running THEN Range(tensor.dispatched) ELSE Earlier

\* C31: when an in-place node executes on the CPU, its entry receives the
\* result computed on the aliased operand's buffer and the operand's entry
\* becomes empty and stays empty; a node evaluated later that names that
\* operand aborts with the missing-operand failure and stores no entry.
C31_AliasedOperandConsumed ==
    Stepped =>
        /\ (Inplace(LastOp) /\ tensor.status = Running) =>
              /\ tensor.results[LastOp.out + 1] = NoBuf
              /\ tensor.results[tensor.last + 1] = InplaceValue(LastOp, tensor.prev)
        /\ \A d \in Evaluated :
              tensor.results[d + 1] = NoBuf <=>
                  \E e \in Evaluated : Inplace(nodes[e + 1].op) /\ nodes[e + 1].op.out = d
        /\ (\E o \in Range(Operands(LastOp)) :
                \E e \in Earlier : Inplace(nodes[e + 1].op) /\ nodes[e + 1].op.out = o) =>
              /\ tensor.status = MissingOperand
              /\ tensor.results[tensor.last + 1] = NoBuf

\* node 2 overwrote node 0 in place and a node evaluated after it, reading
\* node 0, aborted
C31_Witness ==
    /\ Stepped
    /\ Len(nodes) = 4
    /\ nodes[3].op = InplaceBinaryOp(0, 0, 1, "Add")
    /\ nodes[4].op = BinaryOp(0, 2, "Add")
    /\ tensor.last = 3
    /\ tensor.status = MissingOperand
    /\ tensor.results[3] # NoBuf

\* the last step was made on an in-place node whose out is one of its
\* operands, and the step found a buffer for every operand
InplaceReady ==
    /\ Stepped
    /\ Inplace(LastOp)
    /\ LastOp.out \in Range(Operands(LastOp))
    /\ \A o \in Range(Operands(LastOp)) : tensor.prev[o + 1] # NoBuf

\* how many operands of op name its out
NamesOut(op) ==
    Cardinality({i \in 1..Len(Operands(op)) : Operands(op)[i] = op.out})

\* C32: an in-place node whose out equals one of its operands executes
\* successfully on the CPU whenever all its operands were computed earlier
\* and not yet consumed, also when two of its operands name the same node.
C32_InplaceSucceeds == InplaceReady => tensor.status = Running

\* the same for an in-place node whose out is named by one operand only
InplaceNamedOnceSucceeds ==
    (InplaceReady /\ NamesOut(LastOp) = 1) =>
        /\ tensor.status = Running
        /\ tensor.results[tensor.last + 1] = InplaceValue(LastOp, tensor.prev)

\* C33: a CPU run terminates for every acyclic node list: every scheduled
\* node is evaluated once and each evaluation finishes, the Arange loop
\* included, for every start, step and stop the front end produces.
C33_CpuRunTerminates ==
    Converted("Cpu") =>
        /\ tensor.status # "the Arange loop never ends"
        /\ \A i, j \in 1..Len(tensor.dispatched) :
               tensor.dispatched[i] = tensor.dispatched[j] => i = j

\* the same without the Arange loop: every node is evaluated at most once,
\* and a run that ends normally has evaluated every node
EachNodeOnce ==
    Converted("Cpu") =>
        /\ \A i, j \in 1..Len(tensor.dispatched) :
               tensor.dispatched[i] = tensor.dispatched[j] => i = j
        /\ tensor.status = "done" => Range(tensor.dispatched) = Ids(nodes)

\* C34: executing a non-in-place node (Fill, Arange, UnaryOp, BinaryOp,
\* FusedMulAdd, MatMul) on the CPU changes only that node's own results
\* entry: every other entry stays as the step found it, the operands'
\* buffers stay present, and no buffer is released before the run ends.
C34_OnlyOwnEntry ==
    /\ (Stepped /\ ~Inplace(LastOp)) =>
          /\ \A i \in Ids(nodes) : i # tensor.last => tensor.results[i + 1] = tensor.prev[i + 1]
          /\ tensor.status = Running =>
                /\ tensor.results[tensor.last + 1] # NoBuf
                /\ \A o \in Range(Operands(LastOp)) : tensor.results[o + 1] # NoBuf
    /\ (tensor.by = "step" /\ tensor.status # "done") => tensor.released = {}

\* a fused multiply-add over two earlier nodes was evaluated
C34_Witness ==
    /\ Stepped
    /\ tensor.status = Running
    /\ LastOp.kind = "FusedMulAdd"
    /\ LastOp.a_id # LastOp.b_id
    /\ Len(tensor.dispatched) = 3

\* the batched product of a (batch, m, k) and a (batch, k, n) buffer
BatchedProduct(a_data, b_data, shape, k) ==
    [e \in 1..(shape[1] * shape[2] * shape[3]) |->
        LET mn == shape[2] * shape[3]
            b == (e - 1) \div mn
            i == ((e - 1) % mn) \div shape[3]
            j == (e - 1) % shape[3]
        IN matmul_sum(SubSeq(a_data, b * shape[2] * k + 1, (b + 1) * shape[2] * k),
                      SubSeq(b_data, b * k * shape[3] + 1, (b + 1) * k * shape[3]),
                      i, j, shape[3], k, k)]

\* the last step was made on a MatMul that found both operands' buffers
MatMulReady ==
    /\ Stepped
    /\ LastOp.kind = "MatMul"
    /\ tensor.prev[LastOp.l_id + 1] # NoBuf
    /\ tensor.prev[LastOp.r_id + 1] # NoBuf

\* C36: the CPU MatMul checks the rank of the node's output shape before it
\* computes any element and aborts when the shape is not 3-D (batch, m, n);
\* for a 3-D output shape it computes the batched product.
C36_MatMul3D ==
    MatMulReady =>
        LET shape == nodes[tensor.last + 1].shape IN
        IF Len(shape) # 3
        THEN tensor.status = MatMul2D /\ tensor.results = tensor.prev
        ELSE (shape[2] * LastOp.k * shape[1] <= Len(tensor.prev[LastOp.l_id + 1])
              /\ LastOp.k * shape[3] * shape[1] <= Len(tensor.prev[LastOp.r_id + 1])) =>
                 /\ tensor.status = Running
                 /\ tensor.results[tensor.last + 1] =
                        BatchedProduct(tensor.prev[LastOp.l_id + 1],
                                       tensor.prev[LastOp.r_id + 1], shape, LastOp.k)

\* what the arm does: the rank is checked after the operand lookups and
\* before any element, the required rank is 2, and a 2-D output gets the
\* plain product
MatMulRank2 ==
    MatMulReady =>
        LET shape == nodes[tensor.last + 1].shape IN
        IF Len(shape) # 2
        THEN tensor.status = MatMul2D /\ tensor.results = tensor.prev
        ELSE tensor.status \in {Running, "panic: index out of bounds"}

\* --------------------------------------------- concurrent operator calls
\* Threads that hold clones of one GraphTensor (the clones share the outer
\* RwLock of the graph) and call operators on them.  An operator is two
\* statements, each taking the write guard for itself:
\*   self.graph.write().unwrap().add_op(..);
\*   Self { id: self.graph.write().unwrap().next_id(), .. }
\* ats[c] is the index at which the thread's c-th call appended its node,
\* ids[c] the id that call returned.
OpsInit ==
    /\ \E v \in FillVals : nodes = <<GraphNode(Fill(v), FrontShape)>>
    /\ sched = NoSched
    /\ id = 1
    /\ tensor = NoTensor
    /\ base = <<>>
    /\ rewrite = NoRewrite
    /\ gemm = NoGemm
    /\ cuda = NoCuda
    /\ threads = [kind |-> "ops",
                  t |-> [th \in Tids |-> [pc |-> "idle", ats |-> <<>>, ids |-> <<>>]]]

\* the handle the thread calls its next operator on: the one it got last,
\* or the clone of tensor 0 it started with
Self(th) ==
    LET ids == threads.t[th].ids IN IF ids = <<>> THEN 0 ELSE ids[Len(ids)]

\* first statement of an operator: the node is appended under the write guard
OpAddOp(th, op) ==
    /\ threads.kind = "ops"
    /\ threads.t[th].pc = "idle"
    /\ Len(threads.t[th].ids) < MaxCalls
    /\ nodes' = add_op(nodes, op, FrontShape)
    /\ threads' = [threads EXCEPT !.t[th].pc = "appended",
                                  !.t[th].ats = Append(@, Len(nodes))]
    /\ UNCHANGED <<sched, id, tensor, base, rewrite, gemm, cuda>>

\* second statement: next_id under a write guard taken anew
OpNextId(th) ==
    /\ threads.kind = "ops"
    /\ threads.t[th].pc = "appended"
    /\ id' = next_id(id).counter
    /\ threads' = [threads EXCEPT !.t[th].pc = "idle",
                                  !.t[th].ids = Append(@, next_id(id).id)]
    /\ UNCHANGED <<nodes, sched, tensor, base, rewrite, gemm, cuda>>

OpsNext ==
    \E th \in Tids :
        \/ OpAddOp(th, UnaryOp(Self(th), "Neg"))
        \/ OpAddOp(th, BinaryOp(Self(th), 0, "Add"))
        \/ OpNextId(th)

SpecOps == OpsInit /\ [][OpsNext]_vars

\* C35: for any interleaving of operator calls made by threads holding
\* handles of one graph, the id given to each new tensor equals the index
\* at which that call's node was appended.
C35_IdIsIndex ==
    threads.kind = "ops" =>
        \A th \in Tids : \A c \in 1..Len(threads.t[th].ids) :
            threads.t[th].ids[c] = threads.t[th].ats[c]

\* with no call between its two statements the counter is the list's length
IdleCounterIsLength ==
    (threads.kind = "ops" /\ \A th \in Tids : threads.t[th].pc = "idle") =>
        id = Len(nodes)

\* ------------------------------------------- CUDA kernels across groups
RECURSIVE Leaves(_, _)
\* the Fill and Arange nodes the operand tree of node x ends in, from left
\* to right, a node as often as the tree reaches it
Leaves(graph, x) ==
    LET op == graph[x + 1].op IN
    CASE op.kind = "BinaryOp" -> Leaves(graph, op.l_id) \o Leaves(graph, op.r_id)
      [] op.kind = "UnaryOp" -> Leaves(graph, op.v_id)
      [] op.kind = "FusedMulAdd" ->
            Leaves(graph, op.a_id) \o Leaves(graph, op.b_id) \o Leaves(graph, op.c_id)
      [] OTHER -> <<x>>

RECURSIVE Inlined(_, _, _)
\* element i of node x computed from the node list alone
Inlined(graph, x, i) ==
    LET op == graph[x + 1].op IN
    CASE op.kind = "Fill" -> op.v
      [] op.kind = "Arange" -> i * op.step + op.start
      [] op.kind = "UnaryOp" -> unary_elem(op.operator, Inlined(graph, op.v_id, i))
      [] op.kind = "BinaryOp" ->
            binary_elem(op.operator, Inlined(graph, op.l_id, i), Inlined(graph, op.r_id, i))
      [] op.kind = "FusedMulAdd" ->
            fma_elem(Inlined(graph, op.a_id, i), Inlined(graph, op.b_id, i),
                     Inlined(graph, op.c_id, i))

RECURSIVE Vars(_)
\* the variables a rendered expression reads
Vars(body) ==
    CASE body.e = "var" -> {body.name}
      [] body.e = "bin" -> Vars(body.l) \cup Vars(body.r)
      [] body.e = "unary" -> Vars(body.v)
      [] body.e = "fma" -> Vars(body.a) \cup Vars(body.b) \cup Vars(body.c)

\* the group to which node x belongs
GroupOf(x) == CHOOSE g \in 1..Len(cuda.splits) : x \in Range(cuda.splits[g])

\* C37: each CUDA kernel's rendered expression inlines all transitive
\* operands of its group's last node, those of earlier groups included: it
\* reads only constants it declares itself, one per leaf of the operand
\* tree, and writes its own buffer, so that the value run returns is the
\* value of the rendered node computed from the node list alone.
C37_KernelsInlineOperands ==
    (cuda.phase = "ran" /\ cuda.ok) =>
        /\ \A g \in 1..Len(cuda.kernels) :
              LET k == cuda.kernels[g]
                  leaves == Leaves(nodes, cuda.rendered[g])
              IN /\ Len(k.header) = Len(leaves)
                 /\ \A j \in 1..Len(leaves) :
                       /\ k.header[j].name = j
                       /\ k.header[j].decl = "const"
                       /\ k.header[j].v = nodes[leaves[j] + 1].op.v
                 /\ Vars(k.body) = 1..Len(leaves)
                 /\ run_kernel(k) =
                        [i \in 1..elem_count(k.shape) |->
                            Inlined(nodes, cuda.rendered[g], i - 1)]
        /\ cuda.output =
               [i \in 1..elem_count(nodes[cuda.rendered[cuda.returned] + 1].shape) |->
                   Inlined(nodes, cuda.rendered[cuda.returned], i - 1)]

\* the returned kernel is not the first one and its expression inlines a
\* node of an earlier group that is not a leaf
C37_Witness ==
    /\ cuda.phase = "ran"
    /\ cuda.ok
    /\ cuda.returned >= 2
    /\ \E o \in Range(Operands(nodes[cuda.rendered[cuda.returned] + 1].op)) :
           /\ GroupOf(o) < cuda.returned
           /\ nodes[o + 1].op.kind # "Fill"

\* --------------------------------------- launch_gemm: blocks and remainder
\* the lane counts compared: 1 (every column in a full block) up to one more
\* than the widest row (every column in the remainder)
LaneCounts == 1..(MaxDim + 2)

\* C38: in the SIMD launch_gemm a column handled by the remainder path gets
\* the value the full-block path would give it: for fixed inputs the
\* result is the same for every BLOCK_SIZE, whatever n mod BLOCK_SIZE is.
C38_RemainderAsBlock ==
    (gemm.variant = "SIMD" /\ gemm.done) =>
        /\ \A bs \in LaneCounts :
               launch_gemm([gemm EXCEPT !.bs = bs], gemm.prior) = gemm.out
        /\ \A bb \in 0..(gemm.b - 1) : \A i \in 0..(gemm.m - 1) : \A j \in 0..(gemm.n - 1) :
               LET o == At(gemm.prior, bb * gemm.m * gemm.n + i * gemm.n + j)
               IN simd_rem_acc(gemm, bb, i, j, 0, simd_rem_init(gemm, o))
                  = simd_block_acc(gemm, bb, i, j, 0, simd_block_init(gemm, o))

\* a row of one full block and one remainder column, a prior content that
\* is read and scaled, two products per element
C38_Witness ==
    /\ gemm.variant = "SIMD"
    /\ gemm.done
    /\ gemm.bs = 2
    /\ gemm.n = 3
    /\ gemm.k = 2
    /\ gemm.beta # 0
    /\ gemm.alpha = 2
    /\ gemm.prior[3] = 3
    /\ gemm.out[3] # gemm.prior[3]
====
